---- MODULE Spec2Model ----
(***************************************************************************)
(* The archive tree manager of wesense-orbitdb (ipfs-tree.js) behind the   *)
(* archive routes (routes/archives.js), with the root file of index.js,    *)
(* the replication trigger of index.js over the replicated stores, the     *)
(* peer mesh of index.js (address parser, provide, discover and direct     *)
(* dial loops, the peer:discovery handler), its shutdown handler, and the  *)
(* attestation routes (routes/attestations.js).                            *)
(*                                                                         *)
(* A content identifier is modelled by the node it names: a file is named  *)
(* by its bytes, a directory by its listing (name -> child identifier), so *)
(* identical content has the identical identifier.  The blockstore is the  *)
(* set of nodes that were written; resolving an identifier needs its block *)
(* and, along a path, the block of every node on the way.                  *)
(***************************************************************************)
EXTENDS Integers, Sequences, FiniteSets, TLC

VARIABLES
  rootCid,    \* let rootCid = null: the current root of the tree
  blocks,     \* the Helia blockstore: every node written so far
  persisted,  \* DATA_DIR/archive_root_cid.json as readFile finds it
  ing,        \* the ingestFromStaging call in flight (its locals)
  rem,        \* the removePath call in flight (its arguments)
  last,       \* the request that completed last, with its response
  roots,      \* every root identifier produced: adopted as root or returned
  inserted,   \* per path, the bytes of the last insert an ingest returned with
  removals,   \* number of removePath calls that returned
  ops,        \* number of requests received
  phase,      \* main(): "starting" until the root file was looked at
  seen,       \* the listings GET /archives/tree answered: root, path, entries
  calls,      \* number of direct calls of setRootCid and getOrCreateRoot
  now,             \* Date.now(), in milliseconds
  lastSyncTrigger, \* let lastSyncTrigger = 0
  timeouts,        \* the pending setTimeout(() => triggerSync(...), 5000)
  intervalDue,     \* when the setInterval of the periodic fallback fires next
  peers,           \* helia.libp2p.getPeers().length
  running,         \* the triggerSync calls in flight
  dbs,             \* the documents of the stores nodes, trust and attestations
  proc,            \* "running", or "crashed" by an error nothing caught
  puts,            \* every marker put that settled: store, time, trigger, ok
  finished,        \* every triggerSync call that returned
  fallback,        \* what the periodic fallback did when it fired last
  resp,            \* the last answer of a route that reads the stores
  warned,          \* number of "Sync trigger error" warnings
  connects,        \* number of peer:connect events
  ticks,           \* number of steps of the clock
  peersStr,   \* process.env.ORBITDB_BOOTSTRAP_PEERS, and the entries it lists
  peerAddrs,  \* const WESENSE_PEER_ADDRS = parseBootstrapPeers(...)
  conns,      \* helia.libp2p.getConnections(): peer and remote address
  dials,      \* the helia.libp2p.dial(...) calls, by the code that issued them
  disc,       \* the discover() call of the DHT loop (its locals)
  direct,     \* the dialConfiguredPeers() call (its locals)
  prov,       \* the provide() call of the DHT loop (its locals)
  fabric,     \* the provider records of the routing fabric: peer and identifier
  announced,  \* every helia.routing.provide(cid) that settled, in order
  events,     \* every peer:discovery event, in order, with what it did
  shut,       \* let shuttingDown = false, and how far shutdown() has come
  late,       \* the loops a timer started after shutdown() began
  acked,      \* the files the acknowledged changes of the tree leave, in the
              \* order of their acknowledgements
  raced,      \* the changes of the tree that settled beside another in flight
  joined,     \* every peer:connect event: its time, and whether it was accepted
  attDb,      \* the documents of the attestations store, as the routes see it
  handlers,   \* the PUT /attestations/:manifest_hash handlers in flight
  acks,       \* every answer of PUT /attestations/:manifest_hash, in order
  sent        \* number of PUT /attestations/:manifest_hash requests

treeVars == <<rootCid, blocks, persisted, ing, rem, last, roots, inserted,
              removals, ops>>

lifeVars == <<phase, seen, calls>>

syncVars == <<now, lastSyncTrigger, timeouts, intervalDue, peers, running, dbs,
              proc, puts, finished, fallback, resp, warned, connects, ticks>>

meshVars == <<peersStr, peerAddrs, conns, dials, disc, direct, prov, fabric,
              announced, events>>

downVars == <<shut, late>>

raceVars == <<acked, raced>>

\* what only the specifications of overlapping requests and of the late
\* joiner follow
attVars == <<attDb, handlers, acks, sent>>

sideVars == <<raceVars, joined, attVars>>

netVars == <<meshVars, downVars, sideVars>>

\* what the mesh leaves alone
offMesh == <<treeVars, lifeVars, syncVars, downVars, sideVars>>

restVars == <<lifeVars, syncVars, netVars>>

vars == <<treeVars, lifeVars, syncVars, netVars>>

\* Number of requests in one run.
MaxOps == 4

\* Number of direct calls of setRootCid and getOrCreateRoot in one run.
MaxCalls == 2

\* Number of peer:connect events and of steps of the clock in one run.
MaxConnects == 2
MaxTicks == 3

----------------------------------------------------------------------------
\* Nodes and identifiers

EmptyLinks == [n \in {} |-> n]

\* null: no root / no identifier
NoCid == [type |-> "null", data |-> <<>>, links |-> EmptyLinks]

FileNode(content) == [type |-> "file", data |-> content, links |-> EmptyLinks]

DirNode(links) == [type |-> "directory", data |-> <<>>, links |-> links]

EmptyDir == DirNode(EmptyLinks)

IsPrefix(p, q) == Len(p) <= Len(q) /\ SubSeq(q, 1, Len(p)) = p

----------------------------------------------------------------------------
\* The content-addressed store (@helia/unixfs over the blockstore), as the
\* tree manager uses it.  Every operation returns [ok, cid, blocks]; ok = FALSE
\* is a thrown error.  What was written before the throw stays written.

Thrown(blks) == [ok |-> FALSE, cid |-> NoCid, blocks |-> blks]

Put(blks, node) == [ok |-> TRUE, cid |-> node, blocks |-> blks \cup {node}]

addBytes(blks, content) == Put(blks, FileNode(content))

addDirectory(blks) == Put(blks, EmptyDir)

\* Walk path p down from cid, reading each block on the way.
RECURSIVE resolve(_, _, _)
resolve(blks, cid, p) ==
  IF cid \notin blks THEN NoCid
  ELSE IF p = <<>> THEN cid
  ELSE IF cid.type = "directory" /\ Head(p) \in DOMAIN cid.links
       THEN resolve(blks, cid.links[Head(p)], Tail(p))
       ELSE NoCid

stat(blks, cid, p) ==
  LET r == resolve(blks, cid, p)
  IN  IF r = NoCid THEN Thrown(blks) ELSE [ok |-> TRUE, cid |-> r, blocks |-> blks]

\* rm(dir, name): a new directory without the entry.  When the directory has no
\* such entry the store either throws (strict) or writes the unchanged listing
\* back: addFileToTree catches the throw and does not need it.
rm(blks, cid, name, strict) ==
  IF cid \notin blks \/ cid.type # "directory" THEN Thrown(blks)
  ELSE IF name \notin DOMAIN cid.links
       THEN IF strict THEN Thrown(blks) ELSE Put(blks, cid)
       ELSE Put(blks, DirNode([n \in DOMAIN cid.links \ {name} |-> cid.links[n]]))

\* cp(source, target, name): target with source linked under name; never
\* overwrites an entry.
cp(blks, source, target, name) ==
  IF target \notin blks \/ target.type # "directory" THEN Thrown(blks)
  ELSE IF source \notin blks \/ name \in DOMAIN target.links THEN Thrown(blks)
  ELSE Put(blks, DirNode([n \in DOMAIN target.links \cup {name} |->
                            IF n = name THEN source ELSE target.links[n]]))

\* The name under which the store reports a node listed by its own identifier.
SelfName == "<cid>"

Entry(name, node) ==
  [name |-> name, type |-> node.type, cid |-> node,
   size |-> IF node.type = "file" THEN Len(node.data) ELSE 0]

\* ls(cid): the entries of a directory.  For a file the store either throws or
\* yields the file itself (self).  [ok, entries]
ls(blks, cid, self) ==
  IF cid \notin blks THEN [ok |-> FALSE, entries |-> {}]
  ELSE IF cid.type = "directory"
       THEN IF \E n \in DOMAIN cid.links : cid.links[n] \notin blks
            THEN [ok |-> FALSE, entries |-> {}]
            ELSE [ok |-> TRUE,
                  entries |-> {Entry(n, cid.links[n]) : n \in DOMAIN cid.links}]
       ELSE IF self THEN [ok |-> TRUE, entries |-> {Entry(SelfName, cid)}]
            ELSE [ok |-> FALSE, entries |-> {}]

----------------------------------------------------------------------------
\* The tree manager (createIPFSTree)

\* getOrCreateRoot that makes and adopts a new directory at every call
getOrCreateRootAlways(root, blks) ==
  LET d == addDirectory(blks)
  IN  [rootCid |-> d.cid, blocks |-> d.blocks, ret |-> d.cid]

\* getOrCreateRoot: [rootCid, blocks, ret]
getOrCreateRoot(root, blks) ==
  IF root # NoCid THEN [rootCid |-> root, blocks |-> blks, ret |-> root]
  ELSE LET d == addDirectory(blks)
       IN  [rootCid |-> d.cid, blocks |-> d.blocks, ret |-> d.cid]

\* relink that deletes the block of the directory it replaces
relinkInPlace(blks, dirCid, name, childCid, strict) ==
  LET r == rm(blks, dirCid, name, strict)
      c == IF r.ok THEN cp(r.blocks, childCid, r.cid, name)
           ELSE cp(r.blocks, childCid, dirCid, name)
  IN  [c EXCEPT !.blocks = (@ \ {dirCid}) \cup (IF c.ok THEN {c.cid} ELSE {})]

\* relink without the removal: the link alone
relinkNoRemove(blks, dirCid, name, childCid, strict) ==
  cp(blks, childCid, dirCid, name)

\* The "remove the old entry if it exists, then link" idiom of addFileToTree:
\*   try { dirCid = await fs.rm(dirCid, name) } catch {}
\*   return fs.cp(childCid, dirCid, name)
relink(blks, dirCid, name, childCid, strict) ==
  LET r == rm(blks, dirCid, name, strict)
  IN  IF r.ok THEN cp(r.blocks, childCid, r.cid, name)
      ELSE cp(r.blocks, childCid, dirCid, name)

\* addFileToTree that makes a new directory at every level instead of
\* descending into the one that is there
RECURSIVE addFileToTreeFresh(_, _, _, _, _)
addFileToTreeFresh(blks, dirCid, pathParts, content, strict) ==
  IF Len(pathParts) = 1
  THEN LET f == addBytes(blks, content)
       IN  relink(f.blocks, dirCid, pathParts[1], f.cid, strict)
  ELSE LET child == addDirectory(blks)
           n     == addFileToTreeFresh(child.blocks, child.cid, Tail(pathParts),
                                       content, strict)
       IN  IF ~n.ok THEN n
           ELSE relink(n.blocks, dirCid, Head(pathParts), n.cid, strict)

\* addFileToTree that adds the leaf wrapped in a directory of its own name, so
\* that the identifier of the leaf depends on where it is put
RECURSIVE addFileToTreeWrapped(_, _, _, _, _)
addFileToTreeWrapped(blks, dirCid, pathParts, content, strict) ==
  IF Len(pathParts) = 1
  THEN LET f == addBytes(blks, content)
           w == cp(addDirectory(f.blocks).blocks, f.cid, EmptyDir, pathParts[1])
       IN  relink(w.blocks, dirCid, pathParts[1], w.cid, strict)
  ELSE LET head  == Head(pathParts)
           rest  == Tail(pathParts)
           s     == stat(blks, dirCid, <<head>>)
           child == IF s.ok THEN s ELSE addDirectory(blks)
           n     == addFileToTreeWrapped(child.blocks, child.cid, rest, content,
                                         strict)
       IN  IF ~n.ok THEN n
           ELSE relink(n.blocks, dirCid, head, n.cid, strict)

\* addFileToTree(dirCid, pathParts, content): [ok, cid, blocks]
RECURSIVE addFileToTree(_, _, _, _, _)
addFileToTree(blks, dirCid, pathParts, content, strict) ==
  IF Len(pathParts) = 1
  THEN LET f == addBytes(blks, content)
       IN  relink(f.blocks, dirCid, pathParts[1], f.cid, strict)
  ELSE LET head  == Head(pathParts)
           rest  == Tail(pathParts)
           s     == stat(blks, dirCid, <<head>>)
           child == IF s.ok THEN s ELSE addDirectory(blks)
           n     == addFileToTree(child.blocks, child.cid, rest, content, strict)
       IN  IF ~n.ok THEN n
           ELSE relink(n.blocks, dirCid, head, n.cid, strict)

Failed(blks, err, seg) ==
  [ok |-> FALSE, err |-> err, seg |-> seg, cid |-> NoCid, blocks |-> blks]

Returned(r) ==
  IF r.ok THEN [ok |-> TRUE, err |-> "", seg |-> "", cid |-> r.cid, blocks |-> r.blocks]
  ELSE Failed(r.blocks, "store error", "")

\* removeFromTree that does not link the new child back into its parent
RECURSIVE removeFromTreeNoLink(_, _, _, _)
removeFromTreeNoLink(blks, dirCid, pathParts, strict) ==
  IF Len(pathParts) = 1
  THEN Returned(rm(blks, dirCid, pathParts[1], strict))
  ELSE LET childStat == stat(blks, dirCid, <<Head(pathParts)>>)
       IN  IF ~childStat.ok THEN Failed(blks, "Path not found", Head(pathParts))
           ELSE LET n == removeFromTreeNoLink(blks, childStat.cid,
                                              Tail(pathParts), strict)
                IN  IF ~n.ok THEN n
                    ELSE Returned(rm(n.blocks, dirCid, Head(pathParts), strict))

\* removeFromTree that makes a missing directory, as addFileToTree does
RECURSIVE removeFromTreeCreate(_, _, _, _)
removeFromTreeCreate(blks, dirCid, pathParts, strict) ==
  IF Len(pathParts) = 1
  THEN Returned(rm(blks, dirCid, pathParts[1], strict))
  ELSE LET s     == stat(blks, dirCid, <<Head(pathParts)>>)
           child == IF s.ok THEN s ELSE addDirectory(blks)
           n     == removeFromTreeCreate(child.blocks, child.cid,
                                         Tail(pathParts), strict)
       IN  IF ~n.ok THEN n
           ELSE Returned(relink(n.blocks, dirCid, Head(pathParts), n.cid, strict))

\* removeFromTree(dirCid, pathParts): [ok, err, seg, cid, blocks]
RECURSIVE removeFromTree(_, _, _, _)
removeFromTree(blks, dirCid, pathParts, strict) ==
  IF Len(pathParts) = 1
  THEN Returned(rm(blks, dirCid, pathParts[1], strict))
  ELSE LET head == Head(pathParts)
           rest == Tail(pathParts)
           childStat == stat(blks, dirCid, <<head>>)
       IN  IF ~childStat.ok THEN Failed(blks, "Path not found", head)
           ELSE LET n == removeFromTree(blks, childStat.cid, rest, strict)
                IN  IF ~n.ok THEN n
                    ELSE LET r == rm(n.blocks, dirCid, head, strict)
                         IN  IF ~r.ok THEN Returned(r)
                             ELSE Returned(cp(r.blocks, n.cid, r.cid, head))

\* path.split("/").filter(Boolean), on a path given by its "/"-separated pieces
Parts(path) == SelectSeq(path, LAMBDA s : s # "")

\* removePath that looks at the path before it looks at the root
removePathCheckPathFirst(root, path) ==
  IF Len(Parts(path)) = 0 THEN "Cannot remove root"
  ELSE IF root = NoCid THEN "Tree is empty"
  ELSE ""

\* The synchronous head of removePath: the error it throws, "" when it goes on
\* to removeFromTree.
removePathCheck(root, path) ==
  IF root = NoCid THEN "Tree is empty"
  ELSE IF Len(Parts(path)) = 0 THEN "Cannot remove root"
  ELSE ""

\* listTree that starts from getOrCreateRoot()
listTreeCreates(root, blks, path, self) ==
  LET g    == getOrCreateRoot(root, blks)
      none == [rootCid |-> g.rootCid, blocks |-> g.blocks, entries |-> {}]
      s    == IF path # <<>> THEN stat(g.blocks, g.ret, path)
              ELSE [ok |-> TRUE, cid |-> g.ret, blocks |-> g.blocks]
  IN  IF ~s.ok THEN none
      ELSE [none EXCEPT !.entries = ls(g.blocks, s.cid, self).entries]

\* listTree that lists rootCid instead of targetCid
listTreeOfRoot(root, blks, path, self) ==
  LET none == [rootCid |-> root, blocks |-> blks, entries |-> {}]
  IN  IF root = NoCid THEN none
      ELSE LET s == IF path # <<>> THEN stat(blks, root, path)
                    ELSE [ok |-> TRUE, cid |-> root, blocks |-> blks]
           IN  IF ~s.ok THEN none
               ELSE [none EXCEPT !.entries = ls(blks, root, self).entries]

\* listTree(path): [rootCid, blocks, entries]; it has no throwing path.
listTree(root, blks, path, self) ==
  LET none == [rootCid |-> root, blocks |-> blks, entries |-> {}]
  IN  IF root = NoCid THEN none
      ELSE LET s == IF path # <<>> THEN stat(blks, root, path)
                    ELSE [ok |-> TRUE, cid |-> root, blocks |-> blks]
           IN  IF ~s.ok THEN none
               ELSE [none EXCEPT !.entries = ls(blks, s.cid, self).entries]

getRootCid(root) == root

\* A JavaScript value that reaches setRootCid: a string (a text), a CID object,
\* or what else JSON.parse can leave in saved.root_cid.
NoText == [base |-> "", cid |-> NoCid]

\* cid.toString(): the multibase text of an identifier
CidText(cid) == [base |-> "b", cid |-> cid]

\* a text with no multibase prefix CID.parse knows
BadText == [base |-> "?", cid |-> NoCid]

JString(text) == [kind |-> "string", text |-> text]

JOther(kind) == [kind |-> kind, text |-> NoText]

\* a CID instance, as the tree manager returns it
CidObject(cid) == [kind |-> "cid", text |-> [base |-> "", cid |-> cid]]

\* if (saved.root_cid): undefined, null, 0 and "" are falsy
Truthy(v) == v.kind \notin {"undefined", "null"} /\ v # JString(NoText)

\* CID.parse(text): [ok, cid]
CIDparse(text) ==
  IF text.base = "b" /\ text.cid # NoCid THEN [ok |-> TRUE, cid |-> text.cid]
  ELSE [ok |-> FALSE, cid |-> NoCid]

\* A value that is no CID, held where a CID is expected.
NotACid(v) == [type |-> v.kind, data |-> <<>>, links |-> EmptyLinks]

\* setRootCid that keeps a root that is already there
setRootCidOnce(root, v) ==
  IF root # NoCid THEN [ok |-> TRUE, rootCid |-> root]
  ELSE IF v.kind = "string"
       THEN LET c == CIDparse(v.text)
            IN  [ok |-> c.ok, rootCid |-> IF c.ok THEN c.cid ELSE root]
       ELSE [ok |-> TRUE,
             rootCid |-> IF v.kind = "cid" THEN v.text.cid ELSE NotACid(v)]

\* setRootCid(cid): rootCid = typeof cid === "string" ? CID.parse(cid) : cid
\* [ok, rootCid]; ok = FALSE: CID.parse threw and rootCid is as it was.
setRootCid(root, v) ==
  IF v.kind = "string"
  THEN LET c == CIDparse(v.text)
       IN  [ok |-> c.ok, rootCid |-> IF c.ok THEN c.cid ELSE root]
  ELSE [ok |-> TRUE,
        rootCid |-> IF v.kind = "cid" THEN v.text.cid ELSE NotACid(v)]

\* DATA_DIR/archive_root_cid.json: missing, unreadable, no JSON text, the JSON
\* text null, or a JSON object with or without a root_cid member.
RootFile(state, v) == [state |-> state, root_cid |-> v]

NoFile == RootFile("missing", JOther("undefined"))

\* index.js: persistRootCid(cid) overwrites the root file with
\* {root_cid: cid.toString()}; the new content of the file.
persistRootCid(cid) == RootFile("object", JString(CidText(cid)))

\* index.js, "Load persisted root CID if it exists":
\*   try { saved = JSON.parse(await readFile(...));
\*         if (saved.root_cid) ipfsTree.setRootCid(saved.root_cid) } catch {}
\* [rootCid, threw]; threw: an error left the try block.
loadRoot(file, root) ==
  IF file.state # "object" THEN [rootCid |-> root, threw |-> FALSE]
  ELSE IF ~Truthy(file.root_cid) THEN [rootCid |-> root, threw |-> FALSE]
  ELSE [rootCid |-> setRootCid(root, file.root_cid).rootCid, threw |-> FALSE]

----------------------------------------------------------------------------
\* The replication trigger of index.js and the replicated stores

\* const SYNC_DEBOUNCE = 30_000, the delay of the setTimeout, and the period
\* of the setInterval (5 * 60_000), in milliseconds
SYNC_DEBOUNCE == 30000
SETTLE_DELAY == 5000
FALLBACK_PERIOD == 300000

\* Date.now() when main() registers the listener and the interval.
BootTime == 1000000

\* An identifier of a document, character by character.
SyncId == <<"_", "_", "s", "y", "n", "c", "_", "_">>
ReservedPrefix == <<"_", "_">>
NodeId == <<"w", "s", "i", "_", "a">>
HashId == <<"Q", "m", "1">>

\* id.startsWith(prefix)
StartsWith(id, prefix) ==
  Len(prefix) <= Len(id) /\ SubSeq(id, 1, Len(prefix)) = prefix

\* helia.libp2p.peerId.toString() of this station
Self == "12D3KooWself"

\* A document of a store: _id, type, ingester_id (<<>>: none), whether it has
\* versions, peer_id ("": none) and its time.
Doc(id, type, ingester, versions, peer, time) ==
  [_id |-> id, type |-> type, ingester_id |-> ingester, versions |-> versions,
   peer_id |-> peer, timestamp |-> time]

\* const marker = { _id: "__sync__", type: "replication_trigger", peer_id,
\*                  timestamp: new Date().toISOString() }
Marker(time) == Doc(SyncId, "replication_trigger", <<>>, FALSE, Self, time)

\* The stores as openDatabases returns them, with one document each.
SeededStores ==
  [nodes        |-> {Doc(NodeId, "node", NodeId, FALSE, "", BootTime)},
   trust        |-> {Doc(NodeId, "trust", NodeId, TRUE, "", BootTime)},
   attestations |-> {Doc(HashId, "attestation", <<>>, FALSE, "", BootTime)}]

\* db.put(doc) of a Documents store indexed by _id: the document replaces the
\* one with its _id.
put(db, doc) == {d \in db : d._id # doc._id} \cup {doc}

\* db.all(): the values of the store
all(db) == db

\* the listener that does not note the time of the trigger it accepts
onPeerConnectNoStamp(time, lastTrigger) ==
  IF time - lastTrigger < SYNC_DEBOUNCE
  THEN [accepted |-> FALSE, lastSyncTrigger |-> lastTrigger, due |-> 0]
  ELSE [accepted |-> TRUE, lastSyncTrigger |-> lastTrigger,
        due |-> time + SETTLE_DELAY]

\* The peer:connect listener:
\*   if (now - lastSyncTrigger < SYNC_DEBOUNCE) return;
\*   lastSyncTrigger = now; setTimeout(() => triggerSync(...), 5000)
onPeerConnect(time, lastTrigger) ==
  IF time - lastTrigger < SYNC_DEBOUNCE
  THEN [accepted |-> FALSE, lastSyncTrigger |-> lastTrigger, due |-> 0]
  ELSE [accepted |-> TRUE, lastSyncTrigger |-> time,
        due |-> time + SETTLE_DELAY]

\* the fallback that never triggers
fallbackFiresNever(peerCount) == FALSE

\* the fallback that does not look at the peers
fallbackFiresAlways(peerCount) == TRUE

\* The periodic fallback: if (peerCount === 0) return; await triggerSync(...)
fallbackFires(peerCount) == peerCount # 0

\* The stores triggerSync writes the marker to, in the order of its puts.
SyncStores == <<"nodes", "trust">>

\* every store openDatabases returns
AllStores == {"nodes", "trust", "attestations"}

\* A call of triggerSync: why and when it was started, the connection event
\* it answers (0: none), its marker, and the store of its next put.
Call(reason, time, event) ==
  [reason |-> reason, at |-> time, event |-> event, marker |-> Marker(time),
   next |-> 1]

\* triggerSync whose catch block throws the error again
syncPutRethrow(call, stores, ok) ==
  IF ~ok
  THEN [dbs |-> stores, done |-> TRUE, failed |-> TRUE, warned |-> TRUE,
        thrown |-> TRUE]
  ELSE [dbs |-> [stores EXCEPT ![SyncStores[call.next]] = put(@, call.marker)],
        done |-> call.next = Len(SyncStores), failed |-> FALSE,
        warned |-> FALSE, thrown |-> FALSE]

\* One put of triggerSync, inside its try block: ok = FALSE is a put that
\* throws, which ends the call in the catch block with a warning.
\* [dbs, done, failed, warned, thrown]
syncPut(call, stores, ok) ==
  IF ~ok
  THEN [dbs |-> stores, done |-> TRUE, failed |-> TRUE, warned |-> TRUE,
        thrown |-> FALSE]
  ELSE [dbs |-> [stores EXCEPT ![SyncStores[call.next]] = put(@, call.marker)],
        done |-> call.next = Len(SyncStores), failed |-> FALSE,
        warned |-> FALSE, thrown |-> FALSE]

\* GET /nodes: all.map((entry) => entry.value)
listNodes(db) == all(db)

\* GET /trust: the entries with an ingester_id and versions
listTrust(db) == {d \in all(db) : d.ingester_id # <<>> /\ d.versions}

\* GET /attestations: all.map((entry) => entry.value)
listAttestations(db) == all(db)

\* GET /health: (await db.all()).filter((e) => !e.value._id.startsWith("__"))
countDocs(db) ==
  Cardinality({d \in all(db) : ~StartsWith(d._id, ReservedPrefix)})

NoFallback == [at |-> 0, peers |-> 0, fired |-> FALSE]

NoResp == [op |-> "none", docs |-> {}, sizes |-> [s \in AllStores |-> 0]]

SyncInit ==
  /\ now = BootTime
  /\ lastSyncTrigger = 0
  /\ timeouts = <<>>
  /\ intervalDue = BootTime + FALLBACK_PERIOD
  /\ peers = 0
  /\ running = <<>>
  /\ dbs = SeededStores
  /\ proc = "running"
  /\ puts = <<>>
  /\ finished = {}
  /\ fallback = NoFallback
  /\ resp = NoResp
  /\ warned = 0
  /\ connects = 0
  /\ ticks = 0

----------------------------------------------------------------------------
\* The address parser of index.js.  A text is the sequence of its characters,
\* so that split, trim, startsWith, includes and the pattern are computed.

Comma == ","
Colon == ":"
Slash == "/"
Blank == " "
Dot == "."
Digits == {"0", "1", "2", "3", "4", "5", "6", "7", "8", "9"}

\* parseInt(process.env.LIBP2P_PORT || "4002", 10)
LIBP2P_PORT == 4002

\* `${n}` of a number that is not negative: its decimal digits
RECURSIVE ToText(_)
ToText(n) ==
  LET d == <<"0", "1", "2", "3", "4", "5", "6", "7", "8", "9">>[(n % 10) + 1]
  IN  IF n < 10 THEN <<d>> ELSE Append(ToText(n \div 10), d)

\* s.split(sep) for a separator of one character
RECURSIVE split(_, _)
split(s, sep) ==
  IF \A i \in DOMAIN s : s[i] # sep THEN <<s>>
  ELSE LET i == CHOOSE k \in DOMAIN s :
                  s[k] = sep /\ \A j \in 1..(k - 1) : s[j] # sep
       IN  <<SubSeq(s, 1, i - 1)>> \o split(SubSeq(s, i + 1, Len(s)), sep)

\* s.trim()
RECURSIVE trim(_)
trim(s) ==
  IF s # <<>> /\ Head(s) = Blank THEN trim(Tail(s))
  ELSE IF s # <<>> /\ s[Len(s)] = Blank THEN trim(SubSeq(s, 1, Len(s) - 1))
       ELSE s

\* s.includes(sub)
includes(s, sub) ==
  \E i \in 1..(Len(s) - Len(sub) + 1) : SubSeq(s, i, i + Len(sub) - 1) = sub

\* /^[\d.]+$/.test(host)
numeric(host) ==
  host # <<>> /\ \A i \in DOMAIN host : host[i] \in Digits \cup {Dot}

\* `/${proto}/${host}/tcp/${port}`
address(proto, host, port) ==
  <<Slash>> \o proto \o <<Slash>> \o host \o <<Slash, "t", "c", "p", Slash>>
    \o port

Ip4 == <<"i", "p", "4">>
Dns4 == <<"d", "n", "s", "4">>

\* `${port}` of a piece of the entry that may be missing
Piece(pieces, i) ==
  IF i \in DOMAIN pieces THEN pieces[i]
  ELSE <<"u", "n", "d", "e", "f", "i", "n", "e", "d">>

\* the entry parsed with the listen port whatever the entry says
parseEntryListenPort(addr, defaultPort) ==
  IF StartsWith(addr, <<Slash>>) THEN addr
  ELSE LET host == Piece(split(addr, Colon), 1)
       IN  address(IF numeric(host) THEN Ip4 ELSE Dns4, host,
                   ToText(defaultPort))

\* The last map of parseBootstrapPeers: (addr) => { ... }
parseEntry(addr, defaultPort) ==
  IF StartsWith(addr, <<Slash>>) THEN addr
  ELSE LET pieces == split(addr, Colon)
           host   == Piece(pieces, 1)
           port   == IF includes(addr, <<Colon>>) THEN Piece(pieces, 2)
                     ELSE ToText(defaultPort)
       IN  address(IF numeric(host) THEN Ip4 ELSE Dns4, host, port)

\* function parseBootstrapPeers(peersStr, defaultPort)
parseBootstrapPeers(text, defaultPort) ==
  IF text = <<>> THEN <<>>
  ELSE LET pieces  == split(text, Comma)
           trimmed == [i \in DOMAIN pieces |-> trim(pieces[i])]
           entries == SelectSeq(trimmed, LAMBDA e : e # <<>>)
       IN  [i \in DOMAIN entries |-> parseEntry(entries[i], defaultPort)]

\* Hosts and a port an operator writes into ORBITDB_BOOTSTRAP_PEERS.
HostB == <<"1", ".", "1">>
HostC == <<"1", ".", "1", "2">>
HostName == <<"b", ".", "i", "o">>
HostMixed == <<"1", "a">>
OtherPort == <<"7">>

\* An entry of the list as the operator means it: a full address, host:port,
\* a bare host, or nothing; pad is the blank written around it.
ConfigEntry(kind, host, port, pad) ==
  [kind |-> kind, host |-> host, port |-> port, pad |-> pad]

FullAddress ==
  address(Ip4, HostB, OtherPort) \o <<Slash, "p", "2", "p", Slash, "Q">>

ConfigEntries ==
  { ConfigEntry("full", FullAddress, <<>>, <<>>),
    ConfigEntry("hostport", HostB, OtherPort, <<>>),
    ConfigEntry("hostport", HostName, OtherPort, <<Blank>>),
    ConfigEntry("host", HostC, <<>>, <<Blank>>),
    ConfigEntry("host", HostName, <<>>, <<>>),
    ConfigEntry("host", HostMixed, <<>>, <<>>),
    ConfigEntry("empty", <<>>, <<>>, <<>>),
    ConfigEntry("empty", <<>>, <<>>, <<Blank>>) }

\* The text of an entry as it stands in the variable.
EntryText(e) ==
  e.pad \o (CASE e.kind = "full" -> e.host
              [] e.kind = "hostport" -> e.host \o <<Colon>> \o e.port
              [] OTHER -> e.host)
        \o e.pad

\* entries.join(",")
RECURSIVE Join(_)
Join(entries) ==
  IF entries = <<>> THEN <<>>
  ELSE IF Len(entries) = 1 THEN EntryText(entries[1])
       ELSE EntryText(entries[1]) \o <<Comma>> \o Join(Tail(entries))

\* The value of the environment variable that lists the given entries.
Config(entries) == [entries |-> entries, text |-> Join(entries)]

\* Number of entries of ORBITDB_BOOTSTRAP_PEERS.
MaxEntries == 3

Configs ==
  { Config(es) : es \in UNION {[1..n -> ConfigEntries] : n \in 0..MaxEntries} }

\* The configuration of the station whose mesh is followed below.
MeshConfig ==
  Config(<<ConfigEntry("host", HostB, <<>>, <<>>),
           ConfigEntry("host", HostC, <<>>, <<>>)>>)

\* WESENSE_PEER_ADDRS before the module is loaded.
NotLoaded == <<<<>>>>

----------------------------------------------------------------------------
\* The peer mesh of index.js: the peer:discovery listener, the discover and
\* provide loops of startPeerDiscovery, and dialConfiguredPeers.

\* The stations this station can meet, and where they listen.
PeerB == "12D3KooWB"
PeerC == "12D3KooWC"
Remote == {PeerB, PeerC}

HostOf(p) == IF p = PeerB THEN HostB ELSE HostC

\* who answers a dial of an address, if anyone does
PeerAt(host) == {p \in Remote : HostOf(p) = host}

\* A connection of getConnections(): the peer and c.remoteAddr.toString()
Conn(p) ==
  [peer |-> p, remoteAddr |-> address(Ip4, HostOf(p), ToText(LIBP2P_PORT))]

\* helia.libp2p.getPeers()
getPeers(connections) == {c.peer : c \in connections}

\* const dbCids = [dbs.nodes, dbs.trust, dbs.attestations].map(...)
dbCids == <<"nodes", "trust", "attestations">>

\* A provider record of the routing fabric.
Record(p, cid) == [peer |-> p, cid |-> cid]

\* The peers findProviders(cid) can yield: one record for each provider.
Providers(records, cid) == {r.peer : r \in {x \in records : x.cid = cid}}

\* every order of a set, as a lazy sequence can yield it
Orders(S) ==
  {q \in [1..Cardinality(S) -> S] : \A i, j \in DOMAIN q : i # j => q[i] # q[j]}

\* the listener that dials whatever is discovered
onPeerDiscoveryAlways(discoveredId, connections) == TRUE

\* The peer:discovery listener: does it dial?
\*   if (getPeers().some((p) => p.equals(discoveredId))) return; dial(...)
onPeerDiscovery(discoveredId, connections) ==
  ~\E p \in getPeers(connections) : p = discoveredId

\* the discover loop that dials nobody while a peer is connected
discoverSkipsWhileConnected(provider, myPeerId, connectedPeers) ==
  provider = myPeerId \/ connectedPeers # {}

\* The discover loop: is the provider passed over?
\*   if (provider.id.equals(myPeerId)) continue;
\*   if (connectedPeers.has(provider.id.toString())) continue;
discoverSkips(provider, myPeerId, connectedPeers) ==
  provider = myPeerId \/ provider \in connectedPeers

\* s.slice(i - 1, j): the characters i to j that s has
Slice(s, i, j) == SubSeq(s, i, IF j > Len(s) THEN Len(s) ELSE j)

\* Where /\/(?:ip4|dns4)\/([^/]+)\// matches at position i, the end of its
\* group; 0 where it does not match there.
MatchEnd(addr, i) ==
  LET from == IF Slice(addr, i, i + 4) = <<Slash>> \o Ip4 \o <<Slash>>
              THEN i + 5
              ELSE IF Slice(addr, i, i + 5) = <<Slash>> \o Dns4 \o <<Slash>>
                   THEN i + 6
                   ELSE 0
      ends == {j \in (from + 1)..Len(addr) :
                 addr[j] = Slash /\ \A k \in from..(j - 1) : addr[k] # Slash}
  IN  IF from = 0 \/ ends = {} THEN [from |-> 0, to |-> 0]
      ELSE [from |-> from, to |-> (CHOOSE j \in ends : TRUE) - 1]

\* addr.match(/\/(?:ip4|dns4)\/([^/]+)\//)?.[1], <<>> for undefined
targetHost(addr) ==
  LET at == {i \in DOMAIN addr : MatchEnd(addr, i).from # 0}
  IN  IF at = {} THEN <<>>
      ELSE LET i == CHOOSE k \in at : \A j \in at : k <= j
               m == MatchEnd(addr, i)
           IN  SubSeq(addr, m.from, m.to)

\* getConnections().some((c) => c.remoteAddr.toString().includes(targetHost))
alreadyConnected(connections, host) ==
  \E c \in connections : includes(c.remoteAddr, host)

\* dialConfiguredPeers: is the target dialed?
\*   if (targetHost) { if (alreadyConnected) continue; }
dialsTarget(addr, connections) ==
  LET host == targetHost(addr)
  IN  ~(host # <<>> /\ alreadyConnected(connections, host))

\* the provide loop that gives up at the first failure
provideStepAbort(rest, ok) == IF ok THEN Tail(rest) ELSE <<>>

\* discover(): where the loop goes when its dial settled
\*   try { ...; await helia.libp2p.dial(provider.id) } catch (err) { warn }
discoverAfterDial(ok) == "pull"

\* dialConfiguredPeers(): where the loop goes when its dial settled
directAfterDial(ok) == "step"

\* provide(): what is left of the batch when one provide settled
\*   try { await helia.routing.provide(cid, ...) } catch (err) { warn }
provideStep(rest, ok) == Tail(rest)

\* A dial that was issued: whom it reaches, which code issued it and in which
\* cycle, whether that peer was connected or being dialed at that moment, and
\* how the dial ended.  Of a loop, the dials of its last cycle are kept.
Dial(to, by, cycle, connections, log) ==
  [to |-> to, by |-> by, cycle |-> cycle,
   connected |-> to \in getPeers(connections),
   inflight |-> \E src \in DOMAIN log : \E i \in DOMAIN log[src] :
                  log[src][i].to = to /\ log[src][i].state = "pending",
   state |-> "pending"]

\* the code that dials: the peer:discovery listener and the two loops
NoDials == [event |-> <<>>, discover |-> <<>>, direct |-> <<>>]

\* The peers a loop dialed in vain in the cycle that is over.
DialedInVain(log) ==
  {log[i].to : i \in {j \in DOMAIN log : log[j].state = "failed"}}

IdleDisc ==
  [pc |-> "idle", n |-> 0, connectedPeers |-> {}, records |-> {},
   rest |-> <<>>, yielded |-> {}, awaits |-> 0, end |-> "", failed |-> {}]

IdleDirect ==
  [pc |-> "idle", n |-> 0, rest |-> <<>>, awaits |-> 0, decisions |-> {},
   failed |-> {}]

IdleProv == [pc |-> "idle", n |-> 0, rest |-> <<>>]

\* let shuttingDown = false; no close awaited, the process running, no signal
\* received, the forceExit timer never armed, no stop call thrown
NotShut ==
  [shuttingDown |-> FALSE, step |-> 0, exited |-> FALSE, code |-> 0,
   signals |-> 0, runs |-> 0, threw |-> FALSE]

MeshInit ==
  /\ peersStr = MeshConfig
  /\ peerAddrs = parseBootstrapPeers(MeshConfig.text, LIBP2P_PORT)
  /\ conns = {}
  /\ dials = NoDials
  /\ disc = IdleDisc
  /\ direct = IdleDirect
  /\ prov = IdleProv
  /\ fabric = {}
  /\ announced = <<>>
  /\ events = <<>>
  /\ shut = NotShut
  /\ late = {}
  /\ acked = {}
  /\ raced = {}
  /\ joined = <<>>
  /\ attDb = {}
  /\ handlers = <<>>
  /\ acks = <<>>
  /\ sent = 0

----------------------------------------------------------------------------
\* Requests

Day13 == <<"nz", "2026", "02", "13">>
Manifest13 == Day13 \o <<"manifest.json">>
Readings13 == Day13 \o <<"readings.parquet">>
Manifest14 == <<"nz", "2026", "02", "14", "manifest.json">>
Region == <<"nz">>

\* {"x":1} and {}
BytesX == <<123, 34, 120, 34, 58, 49, 125>>
BytesE == <<123, 125>>

Staged(path, content) == [path |-> path, content |-> content, readable |-> TRUE]

Walk(files) == [exists |-> TRUE, files |-> files]

\* Staging directories as walkDir finds them: a directory that does not exist,
\* an empty one, archive files in the region/year/month/day convention, a file
\* that can no longer be read, and a plain file at the top of the directory.
StagingDirs ==
  { [exists |-> FALSE, files |-> <<>>],
    Walk(<<>>),
    Walk(<<Staged(Manifest13, BytesX)>>),
    Walk(<<Staged(Manifest13, BytesE)>>),
    Walk(<<Staged(Manifest13, BytesX), Staged(Readings13, BytesE)>>),
    Walk(<<Staged(Manifest13, BytesX), Staged(Manifest14, BytesX)>>),
    Walk(<<Staged(Readings13, BytesE),
           [path |-> Manifest13, content |-> BytesX, readable |-> FALSE]>>),
    Walk(<<Staged(Region, BytesX)>>) }

\* DELETE /archives/<path>, the path by its "/"-separated pieces: <<"">> is the
\* empty path, <<"", "">> is "/", <<"", "nz">> is "/nz".
RemovePaths ==
  { Manifest13, Day13, <<"nz", "2026">>, <<"", "nz">>, <<"">>, <<"", "">>,
    <<"nz", "2026", "03", "13", "manifest.json">> }

\* GET /archives/tree (<<>>) and GET /archives/tree/<path>
ListPaths ==
  { <<>>, <<"nz">>, <<"nz", "2026">>, <<"nz", "2026", "02">>, Day13, Manifest13,
    <<"au">> }

\* Every path a node of the tree can have.
AllPaths ==
  { SubSeq(p, 1, k) : p \in {Manifest13, Readings13, Manifest14}, k \in 0..5 }

NoLast ==
  [op |-> "none", arg |-> <<>>, staged |-> <<>>, http |-> 0, err |-> "",
   seg |-> "", pre |-> NoCid, post |-> NoCid, ret |-> NoCid, archives |-> <<>>,
   entries |-> {}, wrote |-> FALSE, was |-> NoCid, again |-> FALSE,
   fresh |-> FALSE]

IdleIng ==
  [pc |-> "idle", root |-> NoCid, files |-> <<>>, archives |-> <<>>,
   pre |-> NoCid, staged |-> <<>>, wrote |-> FALSE]

IdleRem ==
  [active |-> FALSE, root |-> NoCid, parts |-> <<>>, arg |-> <<>>,
   was |-> NoCid, again |-> FALSE, fresh |-> FALSE]

Adopted(root) == IF root = NoCid THEN {} ELSE {root}

\* The record of inserts after the files of one ingest, inserted in order.
RECURSIVE Override(_, _)
Override(files, staged) ==
  IF staged = <<>> THEN files
  ELSE LET f == Head(staged)
       IN  Override({g \in files : g.path # f.path}
                      \cup {[path |-> f.path, data |-> f.content]},
                    Tail(staged))

Init ==
  /\ rootCid = NoCid
  /\ blocks = {}
  /\ persisted = NoFile
  /\ ing = IdleIng
  /\ rem = IdleRem
  /\ last = NoLast
  /\ roots = {}
  /\ inserted = {}
  /\ removals = 0
  /\ ops = 0
  /\ phase = "serving"
  /\ seen = {}
  /\ calls = 0
  /\ SyncInit
  /\ MeshInit

\* an audit entry with the identifier of the file instead of the root
AuditEntryOfFile(f, root) == [path |-> f.path, cid |-> FileNode(f.content)]

\* archives.push({ path: relPath, cid: root.toString() })
AuditEntry(f, root) == [path |-> f.path, cid |-> root]

\* The POST /archives handler fails: 500, whatever ingestFromStaging threw.
IngestFailed(err, pre, wrote) ==
  /\ ing' = IdleIng
  /\ last' = [NoLast EXCEPT !.op = "ingest", !.http = 500, !.err = err,
                            !.pre = pre, !.post = rootCid', !.wrote = wrote]

\* POST /archives: ingestFromStaging(stagingDir) up to the end of walkDir.
\* (The handler's context has no persistRootCid: createArchivesRouter takes
\* ipfsTree, helia, ipnsPublish and ipnsResolve only.  A failing ipnsPublish is
\* caught and changes neither the tree nor the answer's status.)
PostArchives(dir) ==
  /\ ing.pc = "idle"
  /\ ops < MaxOps
  /\ ops' = ops + 1
  /\ LET g == getOrCreateRoot(rootCid, blocks)
     IN  /\ rootCid' = g.rootCid
         /\ blocks' = g.blocks
         /\ roots' = roots \cup Adopted(g.rootCid)
         /\ IF dir.exists
            THEN /\ ing' = [pc |-> "loop", root |-> g.ret, files |-> dir.files,
                            archives |-> <<>>, pre |-> rootCid,
                            staged |-> dir.files, wrote |-> g.blocks # blocks]
                 /\ UNCHANGED last
            ELSE IngestFailed("walkDir", rootCid, g.blocks # blocks)
  /\ UNCHANGED <<persisted, rem, inserted, removals>>

\* A turn of the loop that adopts the root of its insert at once
IngestInsertAdopting ==
  /\ ing.pc = "loop"
  /\ ing.files # <<>>
  /\ UNCHANGED <<persisted, rem, inserted, removals, ops>>
  /\ \E strict \in BOOLEAN :
       LET f == Head(ing.files)
           r == addFileToTree(blocks, ing.root, f.path, f.content, strict)
       IN  IF ~f.readable
           THEN /\ rootCid' = rootCid
                /\ IngestFailed("readFile", ing.pre, ing.wrote)
                /\ UNCHANGED <<blocks, roots>>
           ELSE /\ blocks' = r.blocks
                /\ roots' = roots \cup Adopted(r.cid)
                /\ rootCid' = IF r.ok THEN r.cid ELSE rootCid
                /\ IF r.ok
                   THEN /\ ing' = [ing EXCEPT
                                     !.root = r.cid,
                                     !.files = Tail(ing.files),
                                     !.archives = Append(@, AuditEntry(f, r.cid)),
                                     !.wrote = TRUE]
                        /\ UNCHANGED last
                   ELSE IngestFailed("store error", ing.pre, TRUE)

\* One turn of the loop of ingestFromStaging: readFile, addFileToTree, push.
IngestInsert ==
  /\ ing.pc = "loop"
  /\ ing.files # <<>>
  /\ UNCHANGED <<rootCid, persisted, rem, inserted, removals, ops>>
  /\ \E strict \in BOOLEAN :
       LET f == Head(ing.files)
           r == addFileToTree(blocks, ing.root, f.path, f.content, strict)
       IN  IF ~f.readable
           THEN /\ IngestFailed("readFile", ing.pre, ing.wrote)
                /\ UNCHANGED <<blocks, roots>>
           ELSE /\ blocks' = r.blocks
                /\ roots' = roots \cup Adopted(r.cid)
                /\ IF r.ok
                   THEN /\ ing' = [ing EXCEPT
                                     !.root = r.cid,
                                     !.files = Tail(ing.files),
                                     !.archives = Append(@, AuditEntry(f, r.cid)),
                                     !.wrote = TRUE]
                        /\ UNCHANGED last
                   ELSE IngestFailed("store error", ing.pre, TRUE)

\* The loop is over: rootCid = root, return; the handler answers 200.
IngestReturn ==
  /\ ing.pc = "loop"
  /\ ing.files = <<>>
  /\ rootCid' = ing.root
  /\ roots' = roots \cup Adopted(ing.root)
  /\ ing' = IdleIng
  /\ last' = [NoLast EXCEPT !.op = "ingest", !.http = 200, !.staged = ing.staged,
                            !.pre = ing.pre, !.post = ing.root, !.ret = ing.root,
                            !.archives = ing.archives, !.wrote = ing.wrote]
  /\ inserted' = Override(inserted, ing.staged)
  /\ UNCHANGED <<blocks, persisted, rem, removals, ops>>

\* What the DELETE handler knows of its path when the request arrives.
PathFacts(path) ==
  [was     |-> resolve(blocks, rootCid, Parts(path)),
   again   |-> /\ last.op = "remove"
               /\ last.http = 200
               /\ last.was.type = "file"
               /\ Parts(last.arg) = Parts(path),
   fresh   |-> /\ last.op = "ingest"
               /\ last.http = 200
               /\ \E i \in DOMAIN last.staged : last.staged[i].path = Parts(path)]

RemoveDone(path, facts, http, err, seg, pre, ret, wrote) ==
  /\ rem' = IdleRem
  /\ last' = [NoLast EXCEPT !.op = "remove", !.arg = path, !.http = http,
                            !.err = err, !.seg = seg, !.pre = pre,
                            !.post = rootCid', !.ret = ret, !.wrote = wrote,
                            !.was = facts.was, !.again = facts.again,
                            !.fresh = facts.fresh]

\* DELETE /archives/<path>: the handler up to the call of removeFromTree.
DeleteArchives(path) ==
  /\ ~rem.active
  /\ ops < MaxOps
  /\ ops' = ops + 1
  /\ UNCHANGED <<rootCid, blocks, persisted, ing, roots, inserted, removals>>
  /\ LET facts == PathFacts(path)
         err   == removePathCheck(rootCid, path)
     IN  IF path = <<"">>
         THEN RemoveDone(path, facts, 400, "Path is required", "", rootCid, NoCid, FALSE)
         ELSE IF err # ""
              THEN RemoveDone(path, facts, 500, err, "", rootCid, NoCid, FALSE)
              ELSE /\ rem' = [active |-> TRUE, root |-> rootCid,
                              parts |-> Parts(path), arg |-> path,
                              was |-> facts.was, again |-> facts.again,
                              fresh |-> facts.fresh]
                   /\ UNCHANGED last

\* removeFromTree settles: rootCid = its result, or removePath throws.
RemoveReturn ==
  /\ rem.active
  /\ \E strict \in BOOLEAN :
       LET r == removeFromTree(blocks, rem.root, rem.parts, strict)
       IN  /\ blocks' = r.blocks
           /\ rootCid' = IF r.ok THEN r.cid ELSE rootCid
           /\ roots' = roots \cup Adopted(rootCid')
           /\ removals' = IF r.ok THEN removals + 1 ELSE removals
           /\ RemoveDone(rem.arg, rem, IF r.ok THEN 200 ELSE 500, r.err, r.seg,
                         rem.root, r.cid, r.blocks # blocks)
  /\ UNCHANGED <<persisted, ing, inserted, ops>>

\* GET /archives/tree[/<path>]: listTree(path), then getRootCid().
GetTree(path) ==
  /\ ops < MaxOps
  /\ ops' = ops + 1
  /\ \E self \in BOOLEAN :
       LET l == listTree(rootCid, blocks, path, self)
       IN  /\ rootCid' = l.rootCid
           /\ blocks' = l.blocks
           /\ roots' = roots \cup Adopted(l.rootCid)
           /\ last' = [NoLast EXCEPT !.op = "list", !.arg = path, !.http = 200,
                                     !.pre = rootCid, !.post = l.rootCid,
                                     !.ret = getRootCid(l.rootCid),
                                     !.entries = l.entries,
                                     !.wrote = l.blocks # blocks]
  /\ UNCHANGED <<persisted, ing, rem, inserted, removals>>

\* No request is being served.
Idle == ing.pc = "idle" /\ ~rem.active

\* One request at a time: the single-writer use of the tree.
Next ==
  \/ \E dir \in StagingDirs : Idle /\ PostArchives(dir) /\ UNCHANGED restVars
  \/ IngestInsert /\ UNCHANGED restVars
  \/ IngestReturn /\ UNCHANGED restVars
  \/ \E path \in RemovePaths :
       Idle /\ DeleteArchives(path) /\ UNCHANGED restVars
  \/ RemoveReturn /\ UNCHANGED restVars
  \/ \E path \in ListPaths : Idle /\ GetTree(path) /\ UNCHANGED restVars

Spec == Init /\ [][Next]_vars

----------------------------------------------------------------------------
\* Startup: main() looks at the root file before the routes are mounted.

\* What an earlier life of the process left in the blockstore: one archive.
PriorRun ==
  addFileToTree(addDirectory({}).blocks, EmptyDir, Manifest13, BytesX, TRUE)

\* The root file as a start can find it.
RootFiles ==
  { NoFile,
    RootFile("unreadable", JOther("undefined")),
    RootFile("garbled", JOther("undefined")),
    RootFile("null", JOther("undefined")),
    RootFile("object", JOther("undefined")),
    RootFile("object", JOther("null")),
    RootFile("object", JString(NoText)),
    RootFile("object", JString(BadText)),
    RootFile("object", JOther("number")),
    RootFile("object", JOther("object")),
    persistRootCid(PriorRun.cid),
    persistRootCid(EmptyDir) }

BootInit ==
  /\ rootCid = NoCid
  /\ blocks = PriorRun.blocks
  /\ persisted \in RootFiles
  /\ ing = IdleIng
  /\ rem = IdleRem
  /\ last = NoLast
  /\ roots = {}
  /\ inserted = {}
  /\ removals = 0
  /\ ops = 0
  /\ phase = "starting"
  /\ seen = {}
  /\ calls = 0
  /\ SyncInit
  /\ MeshInit

\* main() from createIPFSTree(helia) to the end of the try block around the
\* root file; an error that leaves the block ends main() ("Fatal error").
Startup ==
  /\ phase = "starting"
  /\ LET l == loadRoot(persisted, rootCid)
     IN  /\ rootCid' = l.rootCid
         /\ phase' = IF l.threw THEN "fatal" ELSE "serving"
         /\ roots' = roots \cup Adopted(l.rootCid)
         /\ last' = [NoLast EXCEPT !.op = "startup", !.pre = rootCid,
                                   !.post = l.rootCid,
                                   !.http = IF l.threw THEN 500 ELSE 200]
  /\ UNCHANGED <<blocks, persisted, ing, rem, inserted, removals, ops, seen,
                 calls>>

\* The routes are mounted and no request is being served.
Serving == phase = "serving" /\ Idle

BootNext ==
  \/ Startup /\ UNCHANGED <<syncVars, netVars>>
  \/ \E path \in ListPaths : Serving /\ GetTree(path) /\ UNCHANGED restVars

BootSpec == BootInit /\ [][BootNext]_vars

----------------------------------------------------------------------------
\* The tree manager called directly, between requests: setRootCid,
\* getRootCid and getOrCreateRoot are part of what createIPFSTree returns.

\* What setRootCid is called with: a root produced earlier, as a CID object or
\* as its text, or a text that is no identifier.
SetValues ==
  {CidObject(r) : r \in roots} \cup {JString(CidText(r)) : r \in roots}
    \cup {JString(BadText)}

\* setRootCid(v), then getRootCid()
SetRootCid(v) ==
  /\ calls < MaxCalls
  /\ calls' = calls + 1
  /\ LET s == setRootCid(rootCid, v)
     IN  /\ rootCid' = s.rootCid
         /\ roots' = roots \cup Adopted(s.rootCid)
         /\ last' = [NoLast EXCEPT !.op = "setRootCid",
                                   !.http = IF s.ok THEN 200 ELSE 500,
                                   !.was = v.text.cid, !.pre = rootCid,
                                   !.post = s.rootCid,
                                   !.ret = getRootCid(s.rootCid)]
  /\ UNCHANGED <<blocks, persisted, ing, rem, inserted, removals, ops, phase,
                 seen>>

\* getOrCreateRoot(), then getRootCid()
GetOrCreateRoot ==
  /\ calls < MaxCalls
  /\ calls' = calls + 1
  /\ LET g == getOrCreateRoot(rootCid, blocks)
     IN  /\ rootCid' = g.rootCid
         /\ blocks' = g.blocks
         /\ roots' = roots \cup Adopted(g.rootCid)
         /\ last' = [NoLast EXCEPT !.op = "getOrCreateRoot", !.http = 200,
                                   !.pre = rootCid, !.post = g.rootCid,
                                   !.ret = g.ret, !.wrote = g.blocks # blocks,
                                   !.again = last.op = "getOrCreateRoot",
                                   !.was = last.ret]
  /\ UNCHANGED <<persisted, ing, rem, inserted, removals, ops, phase, seen>>

\* GET /archives/tree[/<path>], with the answer kept.
GetTreeSeen(path) ==
  /\ GetTree(path)
  /\ seen' = seen \cup {[root |-> rootCid, path |-> path,
                         entries |-> last'.entries, calls |-> calls]}
  /\ UNCHANGED <<phase, calls>>

ApiDirs ==
  { Walk(<<Staged(Manifest13, BytesX)>>), Walk(<<Staged(Readings13, BytesE)>>) }

ApiLists == { <<>>, Day13 }

ApiNext ==
  \/ \E v \in SetValues : Serving /\ SetRootCid(v)
                            /\ UNCHANGED <<syncVars, netVars>>
  \/ Serving /\ GetOrCreateRoot /\ UNCHANGED <<syncVars, netVars>>
  \/ \E dir \in ApiDirs : Serving /\ PostArchives(dir) /\ UNCHANGED restVars
  \/ IngestInsert /\ UNCHANGED restVars
  \/ IngestReturn /\ UNCHANGED restVars
  \/ Serving /\ DeleteArchives(Manifest13) /\ UNCHANGED restVars
  \/ RemoveReturn /\ UNCHANGED restVars
  \/ \E path \in ApiLists : Serving /\ GetTreeSeen(path)
                               /\ UNCHANGED <<syncVars, netVars>>

ApiSpec == Init /\ [][ApiNext]_vars

----------------------------------------------------------------------------
\* The replication trigger at work: connection events, the two timers, the
\* puts of triggerSync, and the routes that read the stores.  The clock stands
\* still while a triggerSync call is in flight.

Alive == proc = "running"

\* libp2p dispatches peer:connect: one more peer, and the listener runs.
PeerConnect ==
  /\ Alive
  /\ connects < MaxConnects
  /\ connects' = connects + 1
  /\ peers' = peers + 1
  /\ LET c == onPeerConnect(now, lastSyncTrigger)
     IN  /\ lastSyncTrigger' = c.lastSyncTrigger
         /\ timeouts' = IF c.accepted THEN Append(timeouts, c.due)
                        ELSE timeouts
  /\ UNCHANGED <<now, intervalDue, running, dbs, proc, puts, finished, fallback,
                 resp, warned, ticks>>

\* A peer goes away.
PeerDisconnect ==
  /\ Alive
  /\ peers > 0
  /\ peers' = peers - 1
  /\ UNCHANGED <<now, lastSyncTrigger, timeouts, intervalDue, running, dbs, proc,
                 puts, finished, fallback, resp, warned, connects, ticks>>

\* The setTimeout of an accepted connection event is due: triggerSync starts.
TimeoutFires ==
  /\ Alive
  /\ timeouts # <<>>
  /\ Head(timeouts) = now
  /\ timeouts' = Tail(timeouts)
  /\ running' = Append(running,
                       Call("peer:connect", now, Head(timeouts) - SETTLE_DELAY))
  /\ UNCHANGED <<now, lastSyncTrigger, intervalDue, peers, dbs, proc, puts,
                 finished, fallback, resp, warned, connects, ticks>>

\* The setInterval of the periodic fallback is due.
IntervalFires ==
  /\ Alive
  /\ intervalDue = now
  /\ intervalDue' = now + FALLBACK_PERIOD
  /\ fallback' = [at |-> now, peers |-> peers, fired |-> fallbackFires(peers)]
  /\ running' = IF fallbackFires(peers)
                THEN Append(running, Call("periodic", now, 0))
                ELSE running
  /\ UNCHANGED <<now, lastSyncTrigger, timeouts, peers, dbs, proc, puts,
                 finished, resp, warned, connects, ticks>>

\* A put of a triggerSync call settles.
SyncPut ==
  /\ Alive
  /\ \E i \in DOMAIN running, ok \in BOOLEAN :
       LET call == running[i]
           r    == syncPut(call, dbs, ok)
       IN  /\ dbs' = r.dbs
           /\ puts' = Append(puts, [store |-> SyncStores[call.next],
                                    at |-> now, reason |-> call.reason,
                                    started |-> call.at, event |-> call.event,
                                    doc |-> call.marker, ok |-> ok])
           /\ running' = IF r.done
                         THEN SubSeq(running, 1, i - 1)
                                \o SubSeq(running, i + 1, Len(running))
                         ELSE [running EXCEPT ![i].next = @ + 1]
           /\ finished' = IF r.done
                          THEN finished \cup {[reason |-> call.reason,
                                               at |-> call.at,
                                               event |-> call.event,
                                               failed |-> r.failed]}
                          ELSE finished
           /\ warned' = IF r.warned THEN warned + 1 ELSE warned
           /\ proc' = IF r.thrown THEN "crashed" ELSE proc
  /\ UNCHANGED <<now, lastSyncTrigger, timeouts, intervalDue, peers, fallback,
                 resp, connects, ticks>>

\* The steps of the clock between events.
Steps == {1000, SYNC_DEBOUNCE - SETTLE_DELAY}

\* When the next timer is due.
NextDue ==
  IF timeouts # <<>> /\ Head(timeouts) <= intervalDue THEN Head(timeouts)
  ELSE intervalDue

\* Time passes: by a step, or up to the next timer or a second before it; no
\* timer is passed over.
Tick ==
  /\ Alive
  /\ running = <<>>
  /\ ticks < MaxTicks
  /\ ticks' = ticks + 1
  /\ \E t \in {now + d : d \in Steps} \cup {NextDue, NextDue - 1000} :
       /\ t > now
       /\ t <= NextDue
       /\ now' = t
  /\ UNCHANGED <<lastSyncTrigger, timeouts, intervalDue, peers, running, dbs,
                 proc, puts, finished, fallback, resp, warned, connects>>

\* GET /nodes, GET /trust, GET /attestations and GET /health
GetStores ==
  /\ Alive
  /\ \E op \in {"nodes", "trust", "attestations", "health"} :
       resp' = [op    |-> op,
                docs  |-> CASE op = "nodes" -> listNodes(dbs.nodes)
                            [] op = "trust" -> listTrust(dbs.trust)
                            [] op = "attestations" ->
                                 listAttestations(dbs.attestations)
                            [] OTHER -> {},
                sizes |-> IF op = "health"
                          THEN [s \in AllStores |-> countDocs(dbs[s])]
                          ELSE NoResp.sizes]
  /\ UNCHANGED <<now, lastSyncTrigger, timeouts, intervalDue, peers, running,
                 dbs, proc, puts, finished, fallback, warned, connects, ticks>>

SyncNext ==
  \/ PeerConnect /\ UNCHANGED <<treeVars, lifeVars, netVars>>
  \/ PeerDisconnect /\ UNCHANGED <<treeVars, lifeVars, netVars>>
  \/ TimeoutFires /\ UNCHANGED <<treeVars, lifeVars, netVars>>
  \/ IntervalFires /\ UNCHANGED <<treeVars, lifeVars, netVars>>
  \/ SyncPut /\ UNCHANGED <<treeVars, lifeVars, netVars>>
  \/ Tick /\ UNCHANGED <<treeVars, lifeVars, netVars>>

SyncSpec == Init /\ [][SyncNext]_vars

\* The same with the routes that read the stores.
StoreNext ==
  \/ SyncNext
  \/ GetStores /\ UNCHANGED <<treeVars, lifeVars, netVars>>

StoreSpec == Init /\ [][StoreNext]_vars

----------------------------------------------------------------------------
\* The attestation routes (routes/attestations.js) over the attestations
\* store.  A handler awaits the store twice, at get and at put; other
\* handlers run in between.

\* Number of PUT /attestations/:manifest_hash requests in one run.
MaxPuts == 3

\* req.body.ingester_id: two ingesters, and a body without the field
Ingesters == {"ing-a", "ing-b"}
NoIngester == ""

\* attestationsDb.get(manifest_hash): the entries with that key
get(db, key) == {d \in db : d._id = key}

\* The attestations the handler starts from:
\*   let attestations = [];
\*   if (existing && existing.length > 0 && existing[0].value.attestations)
\*     attestations = [...existing[0].value.attestations];
existingAttestations(existing) ==
  IF existing = {} THEN <<>> ELSE (CHOOSE d \in existing : TRUE).attestations

\* if (!attestations.some((a) => a.ingester_id === ingester_id))
\*   attestations.push({ ingester_id, ... })
withAttestation(attestations, ingester_id) ==
  IF \E k \in DOMAIN attestations : attestations[k].ingester_id = ingester_id
  THEN attestations
  ELSE Append(attestations, [ingester_id |-> ingester_id])

\* const doc = { _id: manifest_hash, manifest_hash, attestations, updated_at }
AttestationDoc(manifest_hash, attestations) ==
  [_id |-> manifest_hash, manifest_hash |-> manifest_hash,
   attestations |-> attestations]

Ack(ingester_id, http, count) ==
  [ingester_id |-> ingester_id, http |-> http, attestation_count |-> count]

Without(seq, i) == SubSeq(seq, 1, i - 1) \o SubSeq(seq, i + 1, Len(seq))

\* PUT /attestations/:manifest_hash arrives: 400 without an ingester_id, else
\* the handler awaits attestationsDb.get(manifest_hash).
PutAttestation(ingester_id) ==
  /\ sent < MaxPuts
  /\ sent' = sent + 1
  /\ IF ingester_id = NoIngester
     THEN /\ acks' = Append(acks, Ack(ingester_id, 400, 0))
          /\ UNCHANGED handlers
     ELSE /\ handlers' = Append(handlers, [ingester_id |-> ingester_id,
                                           pc |-> "get", attestations |-> <<>>])
          /\ UNCHANGED acks
  /\ UNCHANGED attDb

\* The get of a handler settles: it builds its list and awaits the put.
AttestationRead ==
  \E i \in DOMAIN handlers :
    /\ handlers[i].pc = "get"
    /\ handlers' = [handlers EXCEPT
                      ![i].pc = "put",
                      ![i].attestations =
                        withAttestation(
                          existingAttestations(get(attDb, HashId)),
                          handlers[i].ingester_id)]
    /\ UNCHANGED <<attDb, acks, sent>>

\* The put of a handler settles: the answer with attestation_count, or 500.
AttestationWritten ==
  \E i \in DOMAIN handlers, ok \in BOOLEAN :
    /\ handlers[i].pc = "put"
    /\ attDb' = IF ok
                THEN put(attDb,
                         AttestationDoc(HashId, handlers[i].attestations))
                ELSE attDb
    /\ acks' = Append(acks, IF ok
                            THEN Ack(handlers[i].ingester_id, 200,
                                     Len(handlers[i].attestations))
                            ELSE Ack(handlers[i].ingester_id, 500, 0))
    /\ handlers' = Without(handlers, i)
    /\ UNCHANGED sent

offAtt == <<treeVars, lifeVars, syncVars, meshVars, downVars, raceVars, joined>>

AttNext ==
  \/ \E id \in Ingesters \cup {NoIngester} :
       PutAttestation(id) /\ UNCHANGED offAtt
  \/ AttestationRead /\ UNCHANGED offAtt
  \/ AttestationWritten /\ UNCHANGED offAtt

AttSpec == Init /\ [][AttNext]_vars

----------------------------------------------------------------------------
\* The late joiner: peers connect and stay, timers fire when they are due and
\* the clock reaches the next timer.  Between the timers the clock makes at
\* most one step of its own for every peer that has connected.

\* Number of periods of the fallback in which peers connect.
MaxPeriods == 1

Horizon == BootTime + MaxPeriods * FALLBACK_PERIOD

\* A peer connects while a tick of the fallback is still ahead, and stays.
PeerJoins ==
  /\ intervalDue <= Horizon
  /\ LET c == onPeerConnect(now, lastSyncTrigger)
     IN  joined' = Append(joined, [at |-> now, accepted |-> c.accepted])
  /\ PeerConnect

\* The clock reaches the next timer.
Leap ==
  /\ Alive
  /\ running = <<>>
  /\ now < NextDue
  /\ timeouts # <<>> \/ intervalDue <= Horizon
  /\ now' = NextDue
  /\ UNCHANGED <<lastSyncTrigger, timeouts, intervalDue, peers, running, dbs,
                 proc, puts, finished, fallback, resp, warned, connects, ticks>>

offSync == <<treeVars, lifeVars, meshVars, downVars, raceVars, attVars>>

offJoin == <<treeVars, lifeVars, netVars>>

LiveNext ==
  \/ PeerJoins /\ UNCHANGED offSync
  \/ TimeoutFires /\ UNCHANGED offJoin
  \/ IntervalFires /\ UNCHANGED offJoin
  \/ SyncPut /\ UNCHANGED offJoin
  \/ ticks < Len(joined) /\ Tick /\ UNCHANGED offJoin
  \/ Leap /\ UNCHANGED offJoin

\* The event loop runs every timer that is due and settles every put; time
\* does not stand still before a timer.
LiveSpec ==
  /\ Init
  /\ [][LiveNext]_vars
  /\ WF_vars(TimeoutFires /\ UNCHANGED offJoin)
  /\ WF_vars(IntervalFires /\ UNCHANGED offJoin)
  /\ WF_vars(SyncPut /\ UNCHANGED offJoin)
  /\ WF_vars(Leap /\ UNCHANGED offJoin)

----------------------------------------------------------------------------
\* The mesh at work.  A cycle of a loop ends before its timer fires again.

\* Number of peer:discovery events, of cycles of each dial loop, and of cycles
\* of the provide loop in one run.
MaxEvents == 2
MaxCycles == 2
MaxProvides == 2

\* process.exit was not called.
Up == ~shut.exited

\* A remote station connects to this one.
Inbound(p) ==
  /\ p \notin getPeers(conns)
  /\ conns' = conns \cup {Conn(p)}
  /\ UNCHANGED <<peersStr, peerAddrs, dials, disc, direct, prov, fabric,
                 announced, events>>

\* The link to a peer is lost.
LinkLoss(p) ==
  /\ p \in getPeers(conns)
  /\ conns' = {c \in conns : c.peer # p}
  /\ UNCHANGED <<peersStr, peerAddrs, dials, disc, direct, prov, fabric,
                 announced, events>>

\* What the provide loop of a station can leave in the fabric: all of its
\* identifiers, or all but the first when that provide failed.
Announcements ==
  { {dbCids[i] : i \in DOMAIN dbCids}, {dbCids[i] : i \in DOMAIN dbCids \ {1}} }

\* The provide loop of a station has run: its records are in the fabric.
StationProvides(p, cids) ==
  /\ \A r \in fabric : r.peer # p
  /\ fabric' = fabric \cup {Record(p, cid) : cid \in cids}
  /\ UNCHANGED <<peersStr, peerAddrs, conns, dials, disc, direct, prov,
                 announced, events>>

\* libp2p dispatches peer:discovery for an identity: the listener runs.
PeerDiscovery(id) ==
  /\ Len(events) < MaxEvents
  /\ LET dial == onPeerDiscovery(id, conns)
     IN  /\ events' = Append(events, [id |-> id, connections |-> conns,
                                      dialed |-> dial,
                                      dial |-> IF dial
                                               THEN Len(dials.event) + 1
                                               ELSE 0])
         /\ dials' = IF dial
                     THEN [dials EXCEPT
                             !.event = Append(@, Dial(id, "event",
                                                      Len(events) + 1, conns,
                                                      dials))]
                     ELSE dials
  /\ UNCHANGED <<peersStr, peerAddrs, conns, disc, direct, prov, fabric,
                 announced>>

\* A dial settles: the connection is there, or the dial failed.  The loop
\* that awaits it goes on.
DialSettles ==
  \E by \in DOMAIN dials, ok \in BOOLEAN : \E i \in DOMAIN dials[by] :
    /\ dials[by][i].state = "pending"
    /\ ok => dials[by][i].to \in Remote
    /\ dials' = [dials EXCEPT ![by][i].state = IF ok THEN "ok" ELSE "failed"]
    /\ conns' = IF ok THEN conns \cup {Conn(dials[by][i].to)} ELSE conns
    /\ disc' = IF by = "discover" /\ disc.pc = "dial" /\ disc.awaits = i
               THEN [disc EXCEPT !.pc = discoverAfterDial(ok), !.awaits = 0]
               ELSE disc
    /\ direct' = IF by = "direct" /\ direct.pc = "dial" /\ direct.awaits = i
                 THEN [direct EXCEPT !.pc = directAfterDial(ok), !.awaits = 0]
                 ELSE direct
    /\ UNCHANGED <<peersStr, peerAddrs, prov, fabric, announced, events>>

\* The timer of the discover loop fires: discover() takes the connected peers
\* and calls findProviders for the first identifier.
DiscoverStart ==
  /\ disc.pc = "idle"
  /\ disc.n < MaxCycles
  /\ \E q \in Orders(Providers(fabric, dbCids[1])) :
       disc' = [pc |-> "pull", n |-> disc.n + 1,
                connectedPeers |-> getPeers(conns), records |-> fabric,
                rest |-> q, yielded |-> {}, awaits |-> 0, end |-> "",
                failed |-> DialedInVain(dials.discover)]
  /\ dials' = [dials EXCEPT !.discover = <<>>]
  /\ UNCHANGED <<peersStr, peerAddrs, conns, direct, prov, fabric, announced,
                 events>>

\* The loop asks for the next provider: the lookup times out or fails, it is
\* exhausted, or it yields a record.
DiscoverPull ==
  /\ disc.pc = "pull"
  /\ \E timeout \in BOOLEAN :
       IF timeout
       THEN /\ disc' = [disc EXCEPT !.pc = "idle", !.end = "timeout"]
            /\ UNCHANGED dials
       ELSE IF disc.rest = <<>>
            THEN /\ disc' = [disc EXCEPT !.pc = "idle", !.end = "complete"]
                 /\ UNCHANGED dials
            ELSE LET provider == Head(disc.rest)
                     skip     == discoverSkips(provider, Self,
                                               disc.connectedPeers)
                 IN  /\ disc' = [disc EXCEPT
                                   !.rest = Tail(@),
                                   !.yielded = @ \cup {provider},
                                   !.pc = IF skip THEN "pull" ELSE "dial",
                                   !.awaits = IF skip THEN 0
                                              ELSE Len(dials.discover) + 1]
                     /\ dials' = IF skip THEN dials
                                 ELSE [dials EXCEPT
                                         !.discover =
                                           Append(@, Dial(provider, "discover",
                                                          disc.n, conns,
                                                          dials))]
  /\ UNCHANGED <<peersStr, peerAddrs, conns, direct, prov, fabric, announced,
                 events>>

\* The timer of the direct-dial loop fires.
DirectStart ==
  /\ direct.pc = "idle"
  /\ direct.n < MaxCycles
  /\ direct' = [pc |-> "step", n |-> direct.n + 1, rest |-> peerAddrs,
                awaits |-> 0, decisions |-> {},
                failed |-> DialedInVain(dials.direct)]
  /\ dials' = [dials EXCEPT !.direct = <<>>]
  /\ UNCHANGED <<peersStr, peerAddrs, conns, disc, prov, fabric, announced,
                 events>>

\* whom a dial of the address reaches
Reached(addr) ==
  LET at == PeerAt(targetHost(addr))
  IN  IF at = {} THEN "nobody" ELSE CHOOSE p \in at : TRUE

\* One turn of the loop of dialConfiguredPeers.
DirectStep ==
  /\ direct.pc = "step"
  /\ IF direct.rest = <<>>
     THEN /\ direct' = [direct EXCEPT !.pc = "idle"]
          /\ UNCHANGED dials
     ELSE LET addr == Head(direct.rest)
              dial == dialsTarget(addr, conns)
          IN  /\ direct' = [direct EXCEPT
                              !.rest = Tail(@),
                              !.decisions = @ \cup {[addr |-> addr,
                                                     connections |-> conns,
                                                     dialed |-> dial]},
                              !.pc = IF dial THEN "dial" ELSE "step",
                              !.awaits = IF dial THEN Len(dials.direct) + 1
                                         ELSE 0]
              /\ dials' = IF dial
                          THEN [dials EXCEPT
                                  !.direct = Append(@, Dial(Reached(addr),
                                                            "direct", direct.n,
                                                            conns, dials))]
                          ELSE dials
  /\ UNCHANGED <<peersStr, peerAddrs, conns, disc, prov, fabric, announced,
                 events>>

\* The timer of the provide loop fires.
ProvideStart ==
  /\ prov.pc = "idle"
  /\ prov.n < MaxProvides
  /\ prov' = [pc |-> "run", n |-> prov.n + 1, rest |-> dbCids]
  /\ UNCHANGED <<peersStr, peerAddrs, conns, dials, disc, direct, fabric,
                 announced, events>>

\* helia.routing.provide(cid) settles: the record is in the fabric, or the
\* call failed or timed out.
ProvideSettles ==
  /\ prov.pc = "run"
  /\ \E ok \in BOOLEAN :
       LET cid  == Head(prov.rest)
           rest == provideStep(prov.rest, ok)
       IN  /\ fabric' = IF ok THEN fabric \cup {Record(Self, cid)} ELSE fabric
           /\ announced' = Append(announced,
                                  [cid |-> cid, cycle |-> prov.n, ok |-> ok])
           /\ prov' = [prov EXCEPT !.rest = rest,
                                   !.pc = IF rest = <<>> THEN "idle" ELSE "run"]
  /\ UNCHANGED <<peersStr, peerAddrs, conns, dials, disc, direct, events>>

\* What the rest of the world does to the connections.
Links ==
  \/ \E p \in Remote : Inbound(p) /\ UNCHANGED offMesh
  \/ \E p \in Remote : LinkLoss(p) /\ UNCHANGED offMesh

\* What the rest of the world does to the connections and to the fabric.
World ==
  \/ Links
  \/ \E p \in Remote \cup {Self}, cids \in Announcements :
       StationProvides(p, cids) /\ UNCHANGED offMesh

\* The peer:discovery listener in a changing mesh.
EventNext ==
  \/ Links
  \/ \E id \in Remote : PeerDiscovery(id) /\ UNCHANGED offMesh
  \/ DialSettles /\ UNCHANGED offMesh

EventSpec == Init /\ [][EventNext]_vars

\* The two dial loops in a changing mesh.  A run follows one of the loops:
\* what other code that dials does to the connections is among the steps of
\* World.
MeshNext ==
  \/ World
  \/ DialSettles /\ UNCHANGED offMesh
  \/ direct.n = 0 /\ DiscoverStart /\ UNCHANGED offMesh
  \/ DiscoverPull /\ UNCHANGED offMesh
  \/ disc.n = 0 /\ DirectStart /\ UNCHANGED offMesh
  \/ DirectStep /\ UNCHANGED offMesh

MeshSpec == Init /\ [][MeshNext]_vars

\* The provide loop alone.
ProvideNext ==
  \/ ProvideStart /\ UNCHANGED offMesh
  \/ ProvideSettles /\ UNCHANGED offMesh

ProvideSpec == Init /\ [][ProvideNext]_vars

\* The module is loaded: WESENSE_PEER_ADDRS is computed from the environment.
LoadConfig ==
  /\ peerAddrs = NotLoaded
  /\ peerAddrs' = parseBootstrapPeers(peersStr.text, LIBP2P_PORT)
  /\ UNCHANGED <<peersStr, conns, dials, disc, direct, prov, fabric, announced,
                 events>>

ParseInit ==
  /\ rootCid = NoCid
  /\ blocks = {}
  /\ persisted = NoFile
  /\ ing = IdleIng
  /\ rem = IdleRem
  /\ last = NoLast
  /\ roots = {}
  /\ inserted = {}
  /\ removals = 0
  /\ ops = 0
  /\ phase = "starting"
  /\ seen = {}
  /\ calls = 0
  /\ SyncInit
  /\ peersStr \in Configs
  /\ peerAddrs = NotLoaded
  /\ conns = {}
  /\ dials = NoDials
  /\ disc = IdleDisc
  /\ direct = IdleDirect
  /\ prov = IdleProv
  /\ fabric = {}
  /\ announced = <<>>
  /\ events = <<>>
  /\ shut = NotShut
  /\ late = {}
  /\ acked = {}
  /\ raced = {}
  /\ joined = <<>>
  /\ attDb = {}
  /\ handlers = <<>>
  /\ acks = <<>>
  /\ sent = 0

ParseNext == LoadConfig /\ UNCHANGED offMesh

ParseSpec == ParseInit /\ [][ParseNext]_vars

----------------------------------------------------------------------------
\* Shutdown: the handler of SIGINT and SIGTERM beside the requests and the
\* timers of the loops.

\* What shutdown() awaits, in order.
ShutSteps ==
  <<"nodes.close", "trust.close", "attestations.close", "orbitdb.stop",
    "helia.stop">>

\* Number of SIGINT and SIGTERM signals in one run.
MaxSignals == 2

\* shutdown() without its guard: every signal starts the sequence
SignalAgain ==
  /\ shut.signals < MaxSignals
  /\ shut' = [shut EXCEPT !.shuttingDown = TRUE, !.step = 1,
                          !.signals = @ + 1, !.runs = @ + 1]
  /\ UNCHANGED late

\* SIGINT or SIGTERM: shutdown() up to its first await.
\*   if (shuttingDown) return; shuttingDown = true; setTimeout(forceExit);
\*   if (httpServer) httpServer.close(); await dbs.nodes.close()
Signal ==
  /\ shut.signals < MaxSignals
  /\ shut' = IF shut.shuttingDown THEN [shut EXCEPT !.signals = @ + 1]
             ELSE [shut EXCEPT !.shuttingDown = TRUE, !.step = 1,
                               !.signals = @ + 1, !.runs = @ + 1]
  /\ UNCHANGED late

\* What shutdown() awaits settles: the next await, or process.exit(0) after
\* the last one and from the catch block.
CloseSettles ==
  /\ shut.shuttingDown
  /\ \E ok \in BOOLEAN :
       shut' = IF ok /\ shut.step < Len(ShutSteps)
               THEN [shut EXCEPT !.step = @ + 1]
               ELSE [shut EXCEPT !.exited = TRUE, !.code = 0, !.threw = ~ok]
  /\ UNCHANGED late

\* The forceExit timer fires while shutdown() still awaits: process.exit(1)
ForceExit ==
  /\ shut.shuttingDown
  /\ shut' = [shut EXCEPT !.exited = TRUE, !.code = 1]
  /\ UNCHANGED late

\* A timer starts a cycle of a loop: was shutdown() under way?
Late(loop) == late' = IF shut.shuttingDown THEN late \cup {loop} ELSE late

\* The server takes requests: httpServer.close() was not called.
Listening == ~shut.shuttingDown

offDown == <<treeVars, lifeVars, syncVars, meshVars, sideVars>>

offTimer == <<treeVars, lifeVars, syncVars, shut, sideVars>>

\* Shutdown beside the timers of the dial loops.
DownNext ==
  \/ Up /\ DiscoverStart /\ Late("discover") /\ UNCHANGED offTimer
  \/ Up /\ DiscoverPull /\ UNCHANGED offMesh
  \/ Up /\ DirectStart /\ Late("direct") /\ UNCHANGED offTimer
  \/ Up /\ DirectStep /\ UNCHANGED offMesh
  \/ Up /\ DialSettles /\ UNCHANGED offMesh
  \/ Up /\ Signal /\ UNCHANGED offDown
  \/ Up /\ CloseSettles /\ UNCHANGED offDown
  \/ Up /\ ForceExit /\ UNCHANGED offDown

DownSpec == Init /\ [][DownNext]_vars

\* The same with the forceExit timer firing when the process still runs 8 s
\* after shutdown() began.  (The timer is unref'ed: were nothing else left to
\* run, the process would end without it.)
HaltSpec ==
  /\ Init
  /\ [][DownNext]_vars
  /\ WF_vars(Up /\ ForceExit /\ UNCHANGED offDown)

\* Shutdown beside the requests that change the tree.
ExitNext ==
  \/ \E dir \in ApiDirs :
       Up /\ Listening /\ PostArchives(dir) /\ UNCHANGED restVars
  \/ Up /\ IngestInsert /\ UNCHANGED restVars
  \/ Up /\ IngestReturn /\ UNCHANGED restVars
  \/ Up /\ Listening /\ DeleteArchives(Manifest13) /\ UNCHANGED restVars
  \/ Up /\ RemoveReturn /\ UNCHANGED restVars
  \/ Up /\ Signal /\ UNCHANGED offDown
  \/ Up /\ CloseSettles /\ UNCHANGED offDown
  \/ Up /\ ForceExit /\ UNCHANGED offDown

ExitSpec == Init /\ [][ExitNext]_vars

----------------------------------------------------------------------------
\* Ingests that overwrite: a file put where a file is, where a directory is,
\* and beside the files of its day, with removals of the day between them.

LinkDirs ==
  { Walk(<<Staged(Manifest13, BytesX)>>),
    Walk(<<Staged(Manifest13, BytesE)>>),
    Walk(<<Staged(Manifest13, BytesX), Staged(Readings13, BytesE)>>),
    Walk(<<Staged(Region, BytesX)>>) }

LinkNext ==
  \/ \E dir \in LinkDirs : Idle /\ PostArchives(dir) /\ UNCHANGED restVars
  \/ IngestInsert /\ UNCHANGED restVars
  \/ IngestReturn /\ UNCHANGED restVars
  \/ Idle /\ DeleteArchives(Day13) /\ UNCHANGED restVars
  \/ RemoveReturn /\ UNCHANGED restVars

LinkSpec == Init /\ [][LinkNext]_vars

----------------------------------------------------------------------------
\* Requests that overlap: the handlers of POST /archives and of DELETE
\* /archives/<path> are async functions, so one of them runs between the
\* awaits of the other.  Nothing orders them: each reads rootCid when it
\* begins and assigns it when it ends.

\* Two staged files, so that an ingest stands between two inserts.
RaceDirs ==
  { Walk(<<Staged(Manifest13, BytesX)>>),
    Walk(<<Staged(Readings13, BytesE), Staged(Manifest14, BytesX)>>) }

\* The files left when the subtree at parts is removed.
AfterRemove(files, parts) == {f \in files : ~IsPrefix(parts, f.path)}

\* A change of the tree settled: what it was, whether it succeeded, and how
\* far the ingest in flight beside it had come (inserts done, files left).
Settled(op, ok) ==
  [op |-> op, ok |-> ok, beside |-> IF op = "remove" THEN ing.pc ELSE "remove",
   done |-> Len(ing.archives), left |-> Len(ing.files)]

\* The ingest returned: its files are acknowledged.
IngestAcked ==
  /\ acked' = Override(acked, ing.staged)
  /\ raced' = IF rem.active THEN raced \cup {Settled("ingest", TRUE)}
              ELSE raced

\* The removal settled: with 200 its path is acknowledged as removed.
RemoveAcked ==
  /\ acked' = IF last'.http = 200 THEN AfterRemove(acked, rem.parts) ELSE acked
  /\ raced' = IF ing.pc # "idle"
              THEN raced \cup {Settled("remove", last'.http = 200)}
              ELSE raced

offRace == <<lifeVars, syncVars, meshVars, downVars, joined, attVars>>

RaceNext ==
  \/ \E dir \in RaceDirs :
       PostArchives(dir) /\ UNCHANGED raceVars /\ UNCHANGED offRace
  \/ IngestInsert /\ UNCHANGED raceVars /\ UNCHANGED offRace
  \/ IngestReturn /\ IngestAcked /\ UNCHANGED offRace
  \/ DeleteArchives(Manifest13) /\ UNCHANGED raceVars /\ UNCHANGED offRace
  \/ RemoveReturn /\ RemoveAcked /\ UNCHANGED offRace

RaceSpec == Init /\ [][RaceNext]_vars

----------------------------------------------------------------------------
\* Reading a tree

\* The node an identifier names at path p, by the identifier alone.
RECURSIVE NodeAt(_, _)
NodeAt(node, p) ==
  IF p = <<>> THEN node
  ELSE IF node.type = "directory" /\ Head(p) \in DOMAIN node.links
       THEN NodeAt(node.links[Head(p)], Tail(p))
       ELSE NoCid

\* The files that resolve from root in the store: path and bytes.
Files(blks, root) ==
  {[path |-> p, data |-> resolve(blks, root, p).data] :
     p \in {q \in AllPaths : resolve(blks, root, q).type = "file"}}

PrefixFree(files) ==
  \A f, g \in files : IsPrefix(f.path, g.path) => f.path = g.path

\* The files after an insert of f into a tree holding files.
AfterInsert(files, f) ==
  {g \in files : ~IsPrefix(f.path, g.path)}
    \cup {[path |-> f.path, data |-> f.content]}

----------------------------------------------------------------------------
\* C1.  As claimed: starting from an empty tree, after any sequence of inserts
\* the files that resolve from the root are exactly the inserted paths, each
\* with the bytes of the last insert at that path.
C1_AnyInserts ==
  removals = 0 => Files(blocks, rootCid) = inserted

\* C1 (amended).  The same, for inserts among which no path is a proper prefix
\* of another (as under the region/year/month/day/file convention).
C1_InsertsResolve ==
  (removals = 0 /\ PrefixFree(inserted)) => Files(blocks, rootCid) = inserted

\* Two ingests, the second overwriting a file of the first.
C1_Witness ==
  /\ removals = 0
  /\ Idle
  /\ inserted = {[path |-> Manifest13, data |-> BytesE],
                 [path |-> Readings13, data |-> BytesE]}
  /\ rootCid # NoCid

----------------------------------------------------------------------------
\* The entries of the directories along path p that the change at p leaves
\* alone are the same identifiers under both roots.
SiblingsShared(old, new, p) ==
  \A k \in 0..(Len(p) - 1) :
    LET dir == NodeAt(old, SubSeq(p, 1, k))
    IN  dir.type = "directory" =>
          \A n \in DOMAIN dir.links \ {p[k + 1]} :
            NodeAt(new, SubSeq(p, 1, k) \o <<n>>) = dir.links[n]

\* C2.  Every identifier that has been the root still resolves, at every path,
\* to the node it named when it was produced; and an insert or a remove keeps
\* the identifiers of the sibling subtrees it does not touch.
C2_OldRootsValid ==
  /\ \A r \in roots : \A p \in AllPaths : resolve(blocks, r, p) = NodeAt(r, p)
  /\ (last.op = "remove" /\ last.http = 200)
       => SiblingsShared(last.pre, last.post, Parts(last.arg))
  /\ (last.op = "ingest" /\ last.http = 200)
       => \A i \in DOMAIN last.archives :
            SiblingsShared(IF i > 1 THEN last.archives[i - 1].cid
                           ELSE IF last.pre = NoCid THEN EmptyDir ELSE last.pre,
                           last.archives[i].cid, last.staged[i].path)

\* An older root still names a file that the current root no longer has.
C2_Witness ==
  /\ last.op = "remove"
  /\ last.http = 200
  /\ resolve(blocks, rootCid, Manifest13) = NoCid
  /\ resolve(blocks, rootCid, Readings13) # NoCid
  /\ \E r \in roots : r # rootCid /\ resolve(blocks, r, Manifest13).type = "file"

----------------------------------------------------------------------------
\* C3.  After a successful removePath(p) of a path p that the ingest just
\* before inserted: p does not resolve from the new root, every other file
\* that resolved still resolves with the same bytes, and the root before the
\* removal still resolves p to the same file.
C3_RemoveInserted ==
  (last.op = "remove" /\ last.http = 200 /\ last.fresh) =>
    LET p == Parts(last.arg)
    IN  /\ last.post = last.ret
        /\ last.was.type = "file"
        /\ resolve(blocks, last.post, p) = NoCid
        /\ \A f \in Files(blocks, last.pre) :
             f.path # p => f \in Files(blocks, last.post)
        /\ Files(blocks, last.post) \subseteq Files(blocks, last.pre)
        /\ resolve(blocks, last.pre, p) = last.was

C3_Witness ==
  /\ last.op = "remove"
  /\ last.http = 200
  /\ last.fresh
  /\ Parts(last.arg) = Manifest13
  /\ [path |-> Readings13, data |-> BytesE] \in Files(blocks, last.post)
  /\ resolve(blocks, last.pre, Manifest13) = FileNode(BytesX)

----------------------------------------------------------------------------
\* C4.  As claimed: removePath called twice in succession on a file path that
\* is in the tree, with no insert in between: the first call succeeds and
\* returns a new root, the second call fails with "Path not found" and leaves
\* the root as the first call left it.
C4_RemoveTwice ==
  last.op = "remove" =>
    /\ last.was.type = "file" =>
         (last.http = 200 /\ last.ret = last.post /\ last.post # last.pre)
    /\ last.again =>
         (last.http = 500 /\ last.err = "Path not found" /\ last.post = last.pre)

----------------------------------------------------------------------------
\* The ancestor segments of path p that do not resolve from root, by position.
MissingAncestors(blks, root, p) ==
  {k \in 1..(Len(p) - 1) : resolve(blks, root, SubSeq(p, 1, k)) = NoCid}

Least(S) == CHOOSE k \in S : \A j \in S : k <= j

\* C5.  removePath(path) fails with "Path not found: <segment>", naming the
\* first missing segment, whenever an ancestor segment of path does not exist
\* under the current root; and whenever removePath fails, the current root is
\* the root that was current before the call.
C5_MissingAncestor ==
  last.op = "remove" =>
    /\ (last.pre # NoCid /\ MissingAncestors(blocks, last.pre, Parts(last.arg)) # {})
         => /\ last.http = 500
            /\ last.err = "Path not found"
            /\ last.seg = Parts(last.arg)[Least(MissingAncestors(blocks, last.pre,
                                                                Parts(last.arg)))]
    /\ last.http # 200 => last.post = last.pre

\* nz/2026/03/13/manifest.json on a tree that has nz/2026/02: "03" is missing.
C5_Witness ==
  /\ last.op = "remove"
  /\ last.arg = <<"nz", "2026", "03", "13", "manifest.json">>
  /\ resolve(blocks, last.pre, <<"nz", "2026", "02">>) # NoCid
  /\ last.seg = "03"

----------------------------------------------------------------------------
\* C6.  removePath rejects before any store operation: with no root it fails
\* with "Tree is empty" whatever the path, and creates no root; with a root and
\* a path without a non-empty segment it fails with "Cannot remove root"; the
\* root is unchanged in both cases.  (The handler answers the empty path itself
\* and does not call removePath for it.)
C6_Preconditions ==
  (last.op = "remove" /\ last.arg # <<"">>) =>
    /\ last.pre = NoCid
         => /\ last.http = 500
            /\ last.err = "Tree is empty"
            /\ last.post = NoCid
            /\ ~last.wrote
    /\ (last.pre # NoCid /\ Parts(last.arg) = <<>>)
         => /\ last.http = 500
            /\ last.err = "Cannot remove root"
            /\ last.post = last.pre
            /\ ~last.wrote

\* DELETE /archives// on a tree with a root
C6_Witness ==
  /\ last.op = "remove"
  /\ last.arg = <<"", "">>
  /\ last.pre # NoCid
  /\ last.err = "Cannot remove root"
  /\ rootCid = last.pre

----------------------------------------------------------------------------
\* C7.  listTree never fails and never changes the current root: for a path
\* that does not resolve, and with no root at all, it returns an empty listing
\* and creates no root; getRootCid after it returns what it returned before.
C7_ListIsReadOnly ==
  last.op = "list" =>
    /\ last.http = 200
    /\ last.post = last.pre
    /\ last.ret = last.pre
    /\ ~last.wrote
    /\ (last.pre = NoCid \/ resolve(blocks, last.pre, last.arg) = NoCid)
         => last.entries = {}

\* a listing with no root, of a path below the root
C7_Witness ==
  /\ last.op = "list"
  /\ last.pre = NoCid
  /\ last.arg = Day13
  /\ rootCid = NoCid
  /\ blocks = {}

----------------------------------------------------------------------------
\* The direct children of the node at path p under root: one entry per name.
Children(blks, root, p) ==
  LET node  == resolve(blks, root, p)
      names == {n \in DOMAIN node.links : resolve(blks, root, p \o <<n>>) # NoCid}
  IN  {[name |-> n,
        type |-> IF resolve(blks, root, p \o <<n>>).type = "file"
                 THEN "file" ELSE "directory",
        cid  |-> resolve(blks, root, p \o <<n>>),
        size |-> Len(resolve(blks, root, p \o <<n>>).data)] : n \in names}

\* The tree after insert("nz/2026/02/13/manifest.json", {"x":1}) into an empty
\* tree.
RECURSIVE Chain(_, _)
Chain(p, leaf) ==
  IF p = <<>> THEN leaf ELSE DirNode([n \in {Head(p)} |-> Chain(Tail(p), leaf)])

OneManifest == Chain(Manifest13, FileNode(BytesX))

----------------------------------------------------------------------------
\* The root an ingest starts from: the current root, or the empty directory
\* that getOrCreateRoot made.
StartRoot(pre) == IF pre = NoCid THEN EmptyDir ELSE pre

\* C9.  ingestFromStaging inserts one file after another, each into the root
\* the insert before it produced; it returns one audit entry per staged file,
\* in order, whose identifier is the root right after that file's insert, and
\* the final root it returns is the last entry's identifier and the new
\* current root.
C9_IngestAudit ==
  (last.op = "ingest" /\ last.http = 200) =>
    /\ Len(last.archives) = Len(last.staged)
    /\ \A i \in DOMAIN last.staged :
         /\ last.archives[i].path = last.staged[i].path
         /\ Files(blocks, last.archives[i].cid)
              = AfterInsert(Files(blocks, IF i > 1 THEN last.archives[i - 1].cid
                                          ELSE StartRoot(last.pre)),
                            last.staged[i])
    /\ last.ret = IF last.staged = <<>> THEN StartRoot(last.pre)
                  ELSE last.archives[Len(last.archives)].cid
    /\ last.post = last.ret

\* an ingest of two files into a tree that already has a root
C9_Witness ==
  /\ last.op = "ingest"
  /\ last.http = 200
  /\ Len(last.archives) = 2
  /\ last.pre # NoCid
  /\ last.archives[1].cid # last.archives[2].cid
  /\ rootCid = last.archives[2].cid

----------------------------------------------------------------------------
\* C10.  As claimed: after every successful POST /archives and DELETE
\* /archives/<path>, the root file holds the tree's current root.
C10_RootPersisted ==
  (last.op \in {"ingest", "remove"} /\ last.http = 200) =>
    persisted = persistRootCid(last.post)

----------------------------------------------------------------------------
\* The root file holds a valid root identifier: a JSON object whose root_cid
\* is the text of an identifier.
HoldsIdentifier(file) ==
  /\ file.state = "object"
  /\ file.root_cid.kind = "string"
  /\ CIDparse(file.root_cid.text).ok

\* C11.  As claimed: when the start has looked at the root file, the current
\* root is the identifier the file holds if it holds a valid one, and there is
\* no root if the file is missing, unreadable, no JSON or holds something that
\* is no identifier; the start goes on without error either way.
C11_StartupRoot ==
  (last.op = "startup") =>
    /\ phase = "serving"
    /\ rootCid = IF HoldsIdentifier(persisted)
                 THEN CIDparse(persisted.root_cid.text).cid
                 ELSE NoCid

----------------------------------------------------------------------------
\* C12.  After setRootCid(c), with c an identifier or its text, getRootCid
\* returns c and nothing was written to the store; an ingest or a removal
\* that follows starts from c; and a listing of a path under a root is the
\* same whenever that root is the current one, before it was replaced and
\* after it was adopted again.
C12_AdoptRoot ==
  /\ (last.op = "setRootCid" /\ last.http = 200) =>
        /\ last.ret = last.was
        /\ rootCid = last.was
        /\ ~last.wrote
        /\ ing.pc = "loop" => ing.pre = last.was
        /\ rem.active => rem.root = last.was
  /\ (last.op = "setRootCid" /\ last.http # 200 /\ ing.pc = "idle") =>
        rootCid = last.pre
  /\ \A s, t \in seen :
        (s.root = t.root /\ s.path = t.path) => s.entries = t.entries

\* two archives were ingested, the root of the first was listed while it was
\* current and, after the second ingest, again when it had been adopted
C12_Witness ==
  /\ last.op = "list"
  /\ last.arg = Day13
  /\ Cardinality(inserted) = 2
  /\ Cardinality(last.entries) = 1
  /\ \E s, t \in seen :
        /\ s.root = rootCid /\ t.root = rootCid
        /\ s.path = Day13 /\ t.path = Day13
        /\ s.calls = 0 /\ t.calls > 0

----------------------------------------------------------------------------
\* C13.  getOrCreateRoot returns the current root and writes nothing when
\* there is one; when there is none it writes an empty directory, adopts it
\* and returns it; a call right after another returns what that one returned
\* and leaves the root as it was.
C13_GetOrCreateRoot ==
  (last.op = "getOrCreateRoot") =>
    /\ rootCid = last.post
    /\ last.ret = last.post
    /\ last.pre # NoCid => (last.ret = last.pre /\ ~last.wrote)
    /\ last.pre = NoCid =>
          /\ last.ret = EmptyDir
          /\ EmptyDir \in blocks
          /\ Files(blocks, last.ret) = {}
    /\ last.again => (last.ret = last.was /\ last.post = last.pre)

\* the first call made the root, the second returned it
C13_Witness ==
  /\ last.op = "getOrCreateRoot"
  /\ last.again
  /\ ops = 0
  /\ calls = 2
  /\ last.was = EmptyDir
  /\ rootCid = EmptyDir

----------------------------------------------------------------------------
\* The listing of a directory block: name, type, identifier and size of each
\* entry.
Listing(node) == {Entry(n, node.links[n]) : n \in DOMAIN node.links}

\* C14.  The leaf an ingest leaves at a path has the identifier that the
\* store gives to the staged bytes alone, whatever was inserted or removed
\* before, so that insert, remove and insert of the same bytes at the same
\* path end with the leaf identifier of the first insert; and two directories
\* of the store with the same listing have the same identifier.
C14_Deterministic ==
  /\ (last.op = "ingest" /\ last.http = 200) =>
        \A i \in DOMAIN last.staged :
          resolve(blocks, rootCid, last.staged[i].path)
            = addBytes({}, last.staged[i].content).cid
  /\ \A r \in roots : \A p \in AllPaths :
        LET here == resolve(blocks, rootCid, p)
            then == resolve(blocks, r, p)
        IN  (here.type = "file" /\ then.type = "file"
               /\ here.data = then.data) => here = then
  /\ \A a, b \in blocks :
        (a.type = "directory" /\ b.type = "directory"
           /\ Listing(a) = Listing(b)) => a = b

\* the manifest was ingested, removed, and ingested again with the same bytes
C14_Witness ==
  /\ last.op = "ingest"
  /\ last.http = 200
  /\ last.staged = <<Staged(Manifest13, BytesX)>>
  /\ ops = 3
  /\ removals = 1
  /\ resolve(blocks, last.pre, Day13) = EmptyDir
  /\ FileNode(BytesE) \notin blocks
  /\ resolve(blocks, rootCid, Manifest13) = FileNode(BytesX)
  /\ \E r \in roots :
        r # last.pre /\ resolve(blocks, r, Manifest13) = FileNode(BytesX)

----------------------------------------------------------------------------
\* The marker puts that succeeded: positions in the log of puts.
Written(store) == {i \in DOMAIN puts : puts[i].ok /\ puts[i].store = store}

\* those of the connection-event path
WrittenOnConnect(store) ==
  {i \in Written(store) : puts[i].reason = "peer:connect"}

\* C15.  The marker writes that connection events produce in one store are at
\* least the cooldown of 30 s apart, however many events there were, and each
\* happens 5 s after the connection event that was accepted for it; no two
\* accepted events wait for their write at the same time.
C15_Debounce ==
  /\ \A s \in AllStores : \A i, j \in WrittenOnConnect(s) :
        i < j => puts[j].at - puts[i].at >= SYNC_DEBOUNCE
  /\ \A s \in AllStores : \A i \in WrittenOnConnect(s) :
        puts[i].at = puts[i].event + SETTLE_DELAY
  /\ Len(timeouts) <= 1
  /\ \A k \in DOMAIN timeouts : timeouts[k] = lastSyncTrigger + SETTLE_DELAY

\* two connection events within the five seconds after the start, and one
\* marker in nodes and one in trust, written 5 s after the first event
C15_Witness ==
  /\ connects = 2
  /\ lastSyncTrigger = BootTime
  /\ now = BootTime + SETTLE_DELAY
  /\ timeouts = <<>>
  /\ running = <<>>
  /\ Cardinality(WrittenOnConnect("nodes")) = 1
  /\ Cardinality(WrittenOnConnect("trust")) = 1

----------------------------------------------------------------------------
\* C16.  As claimed: whichever path wrote them, two marker writes to one
\* store are at least the cooldown of 30 s apart.
C16_CooldownCoversBothPaths ==
  \A s \in AllStores : \A i, j \in Written(s) :
    i < j => puts[j].at - puts[i].at >= SYNC_DEBOUNCE

----------------------------------------------------------------------------
\* C17.  As claimed: a trigger that returned without an error has written
\* exactly one marker, with the reserved id, the identity of this station and
\* the time, into each of the stores nodes, trust and attestations.
C17_MarkerInEveryStore ==
  \A f \in finished : ~f.failed =>
    \A s \in AllStores :
      LET mine == {i \in Written(s) :
                     puts[i].reason = f.reason /\ puts[i].started = f.at}
      IN  /\ Cardinality(mine) = 1
          /\ \A i \in mine : puts[i].doc = Marker(f.at)

----------------------------------------------------------------------------
\* The periodic puts and calls that belong to the fallback tick at time t.
OfTick(t) ==
  {i \in DOMAIN puts : puts[i].reason = "periodic" /\ puts[i].started = t}

StartedAt(t) ==
  \/ \E k \in DOMAIN running :
       running[k].reason = "periodic" /\ running[k].at = t
  \/ \E f \in finished : f.reason = "periodic" /\ f.at = t

\* C18.  When the timer of the periodic fallback has fired, triggerSync was
\* started for that tick exactly if a peer was connected at that moment; a
\* tick with no peer connected puts no marker.
C18_FallbackNeedsPeer ==
  (fallback.at # 0) =>
    /\ fallback.fired <=> fallback.peers > 0
    /\ fallback.fired <=> StartedAt(fallback.at)
    /\ fallback.peers = 0 => OfTick(fallback.at) = {}

\* a tick with a peer connected, whose trigger wrote both markers
C18_Witness ==
  /\ fallback.at = BootTime + FALLBACK_PERIOD
  /\ fallback.peers > 0
  /\ \E i, j \in OfTick(fallback.at) :
        /\ puts[i].ok /\ puts[i].store = "nodes"
        /\ puts[j].ok /\ puts[j].store = "trust"

----------------------------------------------------------------------------
\* C19.  As claimed: no answer of GET /nodes, GET /trust or GET /attestations
\* holds a document whose id has the reserved prefix, and the db_sizes of
\* GET /health count no such document.
C19_NoMarkerListed ==
  /\ \A d \in resp.docs : ~StartsWith(d._id, ReservedPrefix)
  /\ resp.op = "health" =>
        \A s \in AllStores :
          resp.sizes[s]
            = Cardinality({d \in dbs[s] : ~StartsWith(d._id, ReservedPrefix)})

----------------------------------------------------------------------------
\* C20.  A marker put that throws ends its triggerSync call with one warning
\* and nothing else: the process keeps running with its listener and its
\* interval, the call is over, and the timers that were pending still are.
C20_FailureContained ==
  /\ proc = "running"
  /\ intervalDue >= now
  /\ warned = Cardinality({i \in DOMAIN puts : ~puts[i].ok})
  /\ \A i \in DOMAIN puts : ~puts[i].ok =>
        /\ [reason |-> puts[i].reason, at |-> puts[i].started,
            event |-> puts[i].event, failed |-> TRUE] \in finished
        /\ \A k \in DOMAIN running :
             \/ running[k].reason # puts[i].reason
             \/ running[k].at # puts[i].started

\* the put to nodes of a connection trigger failed, and the periodic fallback
\* after it put its marker
C20_Witness ==
  /\ warned > 0
  /\ \E i, j \in DOMAIN puts :
        /\ i < j
        /\ ~puts[i].ok
        /\ puts[i].reason = "peer:connect"
        /\ puts[j].reason = "periodic"
        /\ puts[j].started > puts[i].at
        /\ puts[j].ok

----------------------------------------------------------------------------
\* The peer mesh

\* every dial the discover loop issued
DiscoverDials == {dials.discover[i] : i \in DOMAIN dials.discover}

\* C21: the discover loop never dials this station's own identity and never
\* dials a peer that is connected at the moment the dial is issued, a peer
\* that became connected after the cycle started included.
C21_DiscoverDialsNeitherSelfNorConnected ==
  \A d \in DiscoverDials : d.to # Self /\ ~d.connected

\* the dials of the discover loop to a peer in one cycle
DialsInCycle(p, n) ==
  {i \in DOMAIN dials.discover :
     dials.discover[i].to = p /\ dials.discover[i].cycle = n}

\* The last cycle of the discover loop ran to the end of the lookup.
CycleComplete == disc.pc = "idle" /\ disc.end = "complete"

\* Both stations had a record for the identifier when the cycle started, and
\* they were not connected.
BothProvide(p, cid) ==
  /\ Record(Self, cid) \in disc.records
  /\ Record(p, cid) \in disc.records
  /\ p \notin disc.connectedPeers

C23_DiscoveryDials ==
  /\ \A i \in DOMAIN events :
       LET e == events[i]
       IN  IF e.id \in getPeers(e.connections)
           THEN ~e.dialed /\ e.dial = 0
           ELSE /\ e.dialed
                /\ e.dial \in DOMAIN dials.event
                /\ dials.event[e.dial].to = e.id
                /\ dials.event[e.dial].cycle = i
  /\ Len(dials.event) = Cardinality({i \in DOMAIN events : events[i].dialed})

C23_Witness ==
  \E i, j \in DOMAIN events :
    /\ events[i].dialed
    /\ getPeers(events[i].connections) = Remote \ {events[i].id}
    /\ ~events[j].dialed
    /\ events[j].id \in getPeers(events[j].connections)

\* A connection's remote address is to the host of the target.
ConnectedToHost(connections, addr) ==
  \E c \in connections : targetHost(c.remoteAddr) = targetHost(addr)

\* C24: in a direct-dial cycle a configured target is dialed if and only if
\* no connection's remote address is to the target's host: a connection to a
\* different host does not make the loop pass the target over.
C24_DialsUnlessHostConnected ==
  \A d \in direct.decisions :
    d.dialed <=> ~ConnectedToHost(d.connections, d.addr)

\* the peers a loop dialed in its last cycle
DialedBy(log) == {log[i].to : i \in DOMAIN log}

\* No peer was dialed twice in the cycle.
OncePerCycle(log) ==
  \A i, j \in DOMAIN log : log[i].to = log[j].to => i = j

\* The providers the discover loop has to dial in its cycle.
Candidates ==
  Providers(disc.records, dbCids[1]) \ (disc.connectedPeers \cup {Self})

\* The discover loop: a cycle that is over and was not cut short by the
\* lookup has dialed every candidate, once, those of the failed dials of the
\* cycle before included.
DiscoverAbsorbs ==
  /\ OncePerCycle(dials.discover)
  /\ (disc.pc = "idle" /\ disc.n > 0 /\ disc.end # "timeout")
       => /\ DialedBy(dials.discover) = Candidates
          /\ disc.failed \cap Candidates \subseteq DialedBy(dials.discover)

\* The direct-dial loop: a cycle that is over has come to every target, has
\* dialed no peer twice, and has dialed again the peers of the failed dials
\* of the cycle before that were not connected when it came to them.
DirectAbsorbs ==
  /\ OncePerCycle(dials.direct)
  /\ (direct.pc = "idle" /\ direct.n > 0)
       => /\ {d.addr : d \in direct.decisions}
               = {peerAddrs[i] : i \in DOMAIN peerAddrs}
          /\ \A d \in direct.decisions :
               (/\ Reached(d.addr) \in direct.failed
                /\ Reached(d.addr) \notin getPeers(d.connections))
                 => Reached(d.addr) \in DialedBy(dials.direct)

\* C25: a dial failure in the discover loop or in the direct-dial loop is
\* absorbed: the loop goes on to the rest of the cycle, does not dial the
\* peer again in that cycle, and dials it again in the next cycle if it is
\* still not connected.
C25_DialFailureAbsorbed == DiscoverAbsorbs /\ DirectAbsorbs

\* the provides of one cycle of the provide loop, in the order they settled
InProvideCycle(n) == SelectSeq(announced, LAMBDA a : a.cycle = n)

\* the identifiers of a sequence of provides
Cids(as) == [i \in DOMAIN as |-> as[i].cid]

\* The cycle of the provide loop is over.
ProvideOver(n) == n < prov.n \/ (n = prov.n /\ prov.pc = "idle")

\* C26: in every provide cycle each TrackedIdentifier is announced exactly
\* once, in order; a failed or timed-out provide does not keep the loop from
\* the identifiers after it.
C26_ProvidesEveryIdentifier ==
  \A n \in 1..prov.n :
    LET cids == Cids(InProvideCycle(n))
    IN  IF ProvideOver(n) THEN cids = dbCids
        ELSE cids = SubSeq(dbCids, 1, Len(cids)) /\ prov.rest # <<>>

C26_Witness ==
  /\ ProvideOver(1)
  /\ prov.n > 0
  /\ ~InProvideCycle(1)[1].ok
  /\ InProvideCycle(1)[2].ok
  /\ ~InProvideCycle(1)[3].ok
  /\ Record(Self, dbCids[2]) \in fabric
  /\ Record(Self, dbCids[1]) \notin fabric

\* every dial issued, whichever code issued it
AllDials ==
  UNION {{dials[by][i] : i \in DOMAIN dials[by]} : by \in DOMAIN dials}

\* C28: a dial is only started for a peer that is neither connected nor
\* being dialed: no dial is started for a connected peer or for a peer for
\* which a dial from any source is still in flight.
C28_DialsFromDiscoveredOrDisconnected ==
  \A d \in AllDials : ~d.connected /\ ~d.inflight

----------------------------------------------------------------------------
\* The address parser

\* The address an entry stands for: its own text if it is a full address,
\* else the IPv4 form for a host of digits and dots and the DNS form for any
\* other host, with the port of the entry or the listen port.
Meant(e) ==
  IF e.kind = "full" THEN e.host
  ELSE address(IF \A i \in DOMAIN e.host : e.host[i] \in Digits \cup {Dot}
               THEN Ip4 ELSE Dns4,
               e.host,
               IF e.kind = "hostport" THEN e.port ELSE <<"4", "0", "0", "2">>)

\* the entries that are not empty, in order
Given(entries) == SelectSeq(entries, LAMBDA e : e.kind # "empty")

\* C27: the parser maps each entry that is not empty to one address, in
\* order: a full address unchanged, host:port with that port, a bare host
\* with the listen port, a host of digits and dots in the IPv4 form and any
\* other in the DNS form; empty entries are dropped and an empty input gives
\* no address.
C27_ParsesEveryEntry ==
  peerAddrs # NotLoaded =>
    LET given == Given(peersStr.entries)
    IN  peerAddrs = [i \in DOMAIN given |-> Meant(given[i])]

C27_Witness ==
  /\ peerAddrs # NotLoaded
  /\ Len(peersStr.entries) = 3
  /\ peersStr.entries[1].kind = "hostport"
  /\ peersStr.entries[1].pad # <<>>
  /\ peersStr.entries[2].kind = "empty"
  /\ peersStr.entries[3] = ConfigEntry("host", HostMixed, <<>>, <<>>)
  /\ Len(peerAddrs) = 2

----------------------------------------------------------------------------
\* Shutdown

\* C29: once shutdown() has begun no timer starts a cycle of a loop: no
\* dial, DHT call or store write is begun by a timer after that.
C29_NoCycleAfterShutdown == late = {}

\* C30: the process does not exit while an ingest or a removal that was in
\* flight when shutdown() began is still under way.
C30_ExitAfterMutation == shut.exited => Idle

----------------------------------------------------------------------------
\* Overlapping requests

\* An acknowledged change is missing from the current root.
LostUpdate == Idle /\ Files(blocks, rootCid) # acked

\* C31.  Changes of the tree are not serialized on the root: a root that
\* lacks the effect of an acknowledged change (a lost update) comes about
\* only when a change settled while another call was in flight, and never
\* with calls that do not overlap.
C31_LostUpdateOnlyWhenOverlapping == LostUpdate => raced # {}

\* The removal of the manifest of the 13th answered 200 while an ingest stood
\* between its two inserts; the ingest then assigned its own root, in which
\* the manifest still resolves.
C31_Witness ==
  /\ Idle
  /\ last.op = "ingest" /\ last.http = 200 /\ rootCid = last.post
  /\ [op |-> "remove", ok |-> TRUE, beside |-> "loop", done |-> 1, left |-> 1]
       \in raced
  /\ resolve(blocks, rootCid, Manifest13).type = "file"
  /\ \A f \in acked : f.path # Manifest13

----------------------------------------------------------------------------
\* Names within a directory

NamesAt(node) == IF node.type = "directory" THEN DOMAIN node.links ELSE {}

\* The listing the store gives of a directory has one entry per name.
UniqueNames(blks, cid) ==
  LET l == ls(blks, cid, FALSE)
  IN  l.ok => Cardinality({e.name : e \in l.entries}) = Cardinality(l.entries)

\* A file can be inserted at p under root: no segment before the last names a
\* file.
Insertable(blks, root, p) ==
  /\ Len(p) >= 1
  /\ \A k \in 1..(Len(p) - 1) :
       resolve(blks, root, SubSeq(p, 1, k)).type # "file"

\* Along p, every directory of new has the names of the directory of old at
\* the same place and the next segment of p, once; the entries of the other
\* names are the entries of old.
Replaces(old, new, p) ==
  \A k \in 0..(Len(p) - 1) :
    LET d == NodeAt(old, SubSeq(p, 1, k))
        e == NodeAt(new, SubSeq(p, 1, k))
    IN  /\ e.type = "directory"
        /\ DOMAIN e.links = NamesAt(d) \cup {p[k + 1]}
        /\ \A n \in NamesAt(d) \ {p[k + 1]} : e.links[n] = d.links[n]

\* The roots an insert starts from: the current root and the root of the
\* ingest in flight.
InsertRoots == {rootCid, ing.root} \ {NoCid}

\* C32.  Names are unique within every node reachable from a root, and an
\* insert at a path whose last or intermediate segment exists succeeds and
\* replaces the entry of that name: the directory keeps one entry per name,
\* the new one under the segment, every other entry as it was.
C32_InsertReplacesEntry ==
  /\ \A r \in roots : \A p \in AllPaths :
       UniqueNames(blocks, resolve(blocks, r, p))
  /\ \A r \in InsertRoots : \A p \in AllPaths : \A strict \in BOOLEAN :
       Insertable(blocks, r, p) =>
         LET n == addFileToTree(blocks, r, p, BytesE, strict)
         IN  /\ n.ok
             /\ NodeAt(n.cid, p) = FileNode(BytesE)
             /\ Replaces(r, n.cid, p)
             /\ \A k \in 0..(Len(p) - 1) :
                  UniqueNames(n.blocks, NodeAt(n.cid, SubSeq(p, 1, k)))

\* An ingest put other bytes at the manifest of the 13th, beside the readings
\* of that day: the day still has its two names.
C32_Witness ==
  /\ last.op = "ingest" /\ last.http = 200 /\ rootCid = last.post
  /\ resolve(blocks, last.pre, Manifest13) = FileNode(BytesX)
  /\ resolve(blocks, rootCid, Manifest13) = FileNode(BytesE)
  /\ NamesAt(resolve(blocks, last.pre, Day13))
       = {"manifest.json", "readings.parquet"}
  /\ NamesAt(resolve(blocks, rootCid, Day13))
       = {"manifest.json", "readings.parquet"}

----------------------------------------------------------------------------
\* The root beside an ingest

\* C33.  ingestFromStaging adopts its result at its end: while it inserts, the
\* current root is the root from before the call (the empty directory when
\* there was none), and when walking the directory, reading a file or an
\* insert fails it stays that root, with the files it had and none of the
\* files the call inserted.
C33_IngestAdoptsAtEnd ==
  /\ ing.pc = "loop" => rootCid = StartRoot(ing.pre)
  /\ (last.op = "ingest" /\ last.http = 500) =>
       /\ last.post = StartRoot(last.pre)
       /\ Files(blocks, last.post)
            = IF last.pre = NoCid THEN {} ELSE Files(blocks, last.pre)
       /\ Idle => rootCid = last.post

\* The readings of the 13th were inserted, then the manifest could not be
\* read: a root with the readings was produced, the current root has none.
C33_Witness ==
  /\ last.op = "ingest" /\ last.http = 500 /\ last.err = "readFile"
  /\ last.wrote
  /\ \E r \in roots : resolve(blocks, r, Readings13) = FileNode(BytesE)
  /\ rootCid = StartRoot(last.pre)
  /\ resolve(blocks, rootCid, Readings13) = NoCid

----------------------------------------------------------------------------
\* Inserts in either order

\* Neither path is a prefix of the other.
Apart(p, q) == ~IsPrefix(p, q) /\ ~IsPrefix(q, p)

\* The root after inserting a at p and then b at q into root.
InsertBoth(blks, root, p, a, q, b, strict) ==
  LET first == addFileToTree(blks, root, p, a, strict)
  IN  IF first.ok THEN addFileToTree(first.blocks, first.cid, q, b, strict)
      ELSE first

\* C34.  Inserts commute and are idempotent in the root they yield: from any
\* root, two files inserted at paths neither of which is a prefix of the
\* other give the same root in either order, and a file inserted twice at the
\* same path with the same bytes gives the root of inserting it once.
C34_InsertsCommute ==
  \A r \in InsertRoots : \A p, q \in AllPaths : \A s, t \in BOOLEAN :
    (Insertable(blocks, r, p) /\ Insertable(blocks, r, q)) =>
      LET pq   == InsertBoth(blocks, r, p, BytesX, q, BytesE, s)
          qp   == InsertBoth(blocks, r, q, BytesE, p, BytesX, t)
          once == addFileToTree(blocks, r, p, BytesX, s)
          pp   == InsertBoth(blocks, r, p, BytesX, p, BytesX, t)
      IN  /\ Apart(p, q) => (pq.ok /\ qp.ok /\ pq.cid = qp.cid)
          /\ once.ok /\ pp.ok /\ pp.cid = once.cid

\* An ingest inserted the manifest and then the readings of the 13th into a
\* tree that was there: its root is the root the other order gives.
C34_Witness ==
  /\ last.op = "ingest" /\ last.http = 200 /\ rootCid = last.post
  /\ Len(last.staged) = 2
  /\ last.staged[1].path = Manifest13 /\ last.staged[2].path = Readings13
  /\ last.pre # NoCid
  /\ InsertBoth(blocks, last.pre, Readings13, BytesE, Manifest13, BytesX,
                FALSE).cid = rootCid

----------------------------------------------------------------------------
\* The late joiner

\* A put of the marker was made by a triggerSync call that began at or after
\* the i-th connection event.
Attempted(i) ==
  /\ i \in DOMAIN joined
  /\ \E k \in DOMAIN puts : puts[k].started >= joined[i].at

\* The i-th connection event was accepted and its own triggerSync call, begun
\* SETTLE_DELAY after it, has made a put.
Answered(i) ==
  /\ i \in DOMAIN joined
  /\ \E k \in DOMAIN puts :
       /\ puts[k].reason = "peer:connect"
       /\ puts[k].event = joined[i].at
       /\ puts[k].started = joined[i].at + SETTLE_DELAY

\* C35.  For every peer that connects and stays, a write of the marker is
\* attempted after its connection event: by the event's own call 5 s later
\* when the cooldown accepted it, and else by a call of a later event or of
\* the next tick of the fallback.
C35_LateJoinerServed ==
  \A i \in 1..MaxConnects :
    /\ (Len(joined) >= i) ~> Attempted(i)
    /\ (Len(joined) >= i /\ joined[i].accepted) ~> Answered(i)

\* The second peer connected within the cooldown of the first, after the call
\* of the first had made its puts; the fallback then made a put.
C35_Witness ==
  /\ Len(joined) = 2
  /\ joined[1].accepted /\ ~joined[2].accepted
  /\ joined[2].at > joined[1].at + SETTLE_DELAY
  /\ \E k \in DOMAIN puts :
       puts[k].reason = "periodic" /\ puts[k].started >= joined[2].at

\* A second signal starts no second sequence, and shutdown() does not go
\* back: the forceExit timer is armed once and no stop call is made again.
ShutdownOnce ==
  /\ [](shut.runs <= 1)
  /\ [][shut.shuttingDown =>
          shut'.shuttingDown /\ shut'.step >= shut.step]_vars

\* C36, as claimed.  A second signal starts no second shutdown sequence, and
\* once shutdown has started the process exits: with code 0 after the stores
\* and the node are stopped, or with the forced exit.
C36_ExitsStoppedOrForced ==
  /\ ShutdownOnce
  /\ shut.shuttingDown ~> shut.exited
  /\ [](shut.exited =>
          \/ shut.code = 0 /\ shut.step = Len(ShutSteps) /\ ~shut.threw
          \/ shut.code = 1)

\* C36 (amended).  The same, where the exit with code 0 comes after the last
\* stop call or as soon as one of the stop calls throws, the calls after it
\* never made.
C36_ShutdownOnceAndExits ==
  /\ ShutdownOnce
  /\ shut.shuttingDown ~> shut.exited
  /\ [](shut.exited =>
          \/ shut.code = 0 /\ (shut.step = Len(ShutSteps) \/ shut.threw)
          \/ shut.code = 1 /\ ~shut.threw)

\* Two signals, one shutdown sequence, and the exit with code 0 after a stop
\* call of a store threw, before orbitdb.stop() and helia.stop() were called.
C36_Witness ==
  /\ shut.signals = 2 /\ shut.runs = 1
  /\ shut.exited /\ shut.code = 0 /\ shut.threw
  /\ shut.step < Len(ShutSteps) - 1

----------------------------------------------------------------------------
\* Attestations

\* The attestations of the stored document of the manifest.
Stored == existingAttestations(get(attDb, HashId))

\* C37.  Attestations accumulate without loss or duplication: once every PUT
\* was answered, the stored document holds exactly one attestation for each
\* ingester whose PUT was acknowledged, and no acknowledged attestation_count
\* is greater than the number stored.
C37_AttestationsAccumulate ==
  handlers = <<>> =>
    /\ {Stored[k].ingester_id : k \in DOMAIN Stored}
         = {acks[k].ingester_id :
              k \in {j \in DOMAIN acks : acks[j].http = 200}}
    /\ \A j, k \in DOMAIN Stored :
         Stored[j].ingester_id = Stored[k].ingester_id => j = k
    /\ \A k \in DOMAIN acks : acks[k].attestation_count <= Len(Stored)

====
